---- MODULE Spec2Model ----
(***************************************************************************)
(* A model of the cea708-types cc_data codec: the Code / Service /         *)
(* DTVCCPacket byte codecs (tables.rs, packet.rs), the streaming           *)
(* CCDataParser (parser.rs) and the paced CCDataWriter (writer.rs).        *)
(* Bytes are integers 0..255, byte strings are sequences, a VecDeque is a  *)
(* sequence whose element 1 is the front.                                  *)
(***************************************************************************)
EXTENDS Integers, Sequences, FiniteSets, TLC

(***************************************************************************)
(* Slices and results                                                      *)
(***************************************************************************)
\* &s[n..]
Drop(s, n) == SubSeq(s, n + 1, Len(s))

\* &s[..n]
Take(s, n) == SubSeq(s, 1, n)

\* F applied to arg, arg being evaluated once, before F's body reads it
ByValue(F(_), arg) == CHOOSE r \in { F(x) : x \in {arg} } : TRUE

Min(a, b) == IF a <= b THEN a ELSE b

Max(a, b) == IF a >= b THEN a ELSE b

\* Result::Ok(v)
Ok(v) == [ok |-> TRUE, v |-> v, expected |-> 0, actual |-> 0]

\* Result::Err(LengthMismatch { expected, actual })
Err(e, a) == [ok |-> FALSE, v |-> <<>>, expected |-> e, actual |-> a]

(***************************************************************************)
(* tables.rs: Code                                                         *)
(* A Code value is [tag, data].  A variant of CODE_MAP_TABLE has tag       *)
(* "Table" and carries the bytes of its table row (the table is a          *)
(* one-to-one list of rows); Ext1::Unknown carries the bytes after the     *)
(* 0x10 prefix; P16 carries its 16 bit value; a command on windows carries *)
(* its WindowBits byte, a command with an argument struct the struct;      *)
(* Delay carries its byte; Unknown carries its raw bytes.                  *)
(***************************************************************************)
\* second bytes of the [0x10, x] rows of CODE_MAP_TABLE
Ext1TableBytes ==
    {32, 33, 37, 42, 44, 48, 49, 50, 51, 52, 53, 57, 58, 60, 63,
     118, 119, 120, 121, 122, 123, 124, 125, 126, 127, 160}

\* first bytes of the single byte rows of CODE_MAP_TABLE
SingleTableBytes ==
    {0, 3, 8, 12, 13, 14} \cup (32..135) \cup {142, 143} \cup (160..255)

\* CODE_MAP_TABLE.binary_search_by_key(&data, |m| m.cea708_bytes).is_ok()
InCodeMapTable(bytes) ==
    \/ Len(bytes) = 1 /\ bytes[1] \in SingleTableBytes
    \/ Len(bytes) = 2 /\ bytes[1] = 16 /\ bytes[2] \in Ext1TableBytes

Ext1ExpectedSize(bytes) ==
    IF bytes = <<>> THEN Err(1, 0)
    ELSE LET b == bytes[1] IN
         CASE b \in 0..7     -> Ok(1)
           [] b \in 8..15    -> Ok(2)
           [] b \in 16..23   -> Ok(3)
           [] b \in 24..31   -> Ok(4)
           [] b \in 32..127  -> Ok(1)
           [] b \in 128..135 -> Ok(5)
           [] b \in 136..143 -> Ok(6)
           [] b \in 144..159 -> IF Len(bytes) < 2 THEN Err(2, 0)
                                ELSE Ok((bytes[2] % 64) + 1)
           [] OTHER          -> Ok(1)

\* Ext1::expected_size(&bytes[1..])? + 1
PlusPrefix(e) == IF e.ok THEN Ok(e.v + 1) ELSE e

CodeExpectedSize(bytes) ==
    IF bytes = <<>> THEN Err(1, 0)
    ELSE LET b == bytes[1] IN
         CASE b \in 0..15    -> Ok(1)
           [] b = 16         -> PlusPrefix(Ext1ExpectedSize(Drop(bytes, 1)))
           [] b \in 17..23   -> Ok(2)
           [] b \in 24..31   -> Ok(3)
           [] b \in 32..127  -> Ok(1)
           [] b \in 128..135 -> Ok(1)
           [] b \in 136..140 -> Ok(2)
           [] b = 141        -> Ok(2)
           [] b = 142        -> Ok(1)
           [] b = 143        -> Ok(1)
           [] b = 144        -> Ok(3)
           [] b = 145        -> Ok(4)
           [] b = 146        -> Ok(3)
           [] b \in 147..150 -> Ok(1)
           [] b = 151        -> Ok(5)
           [] b \in 152..159 -> Ok(7)
           [] OTHER          -> Ok(1)

(***************************************************************************)
(* tables.rs: the argument structs.  An enum field holds the u8 its        *)
(* From<u8> / From<..> for u8 pair maps one to one (Anchor 0..15, Justify, *)
(* Direction, DisplayEffect, Opacity, ColorValue, PenSize, TextOffset      *)
(* 0..3, BorderType, FontStyle, EdgeType 0..7, TextTag 0..15); a u8 field  *)
(* is public and holds any byte.                                           *)
(***************************************************************************)
\* u8::from(bool)
U8FromBool(b) == IF b THEN 1 ELSE 0

\* (byte & (1 << n)) > 0
BitIsSet(byte, n) == (byte \div (2 ^ n)) % 2 = 1

\* From<[u8; 6]> for DefineWindowArgs
DefineWindowArgsFrom(args) ==
    [window_id |-> 0,
     priority |-> args[1] % 8,
     anchor_point |-> args[4] \div 16,
     relative_positioning |-> BitIsSet(args[2], 7),
     anchor_vertical |-> args[2] % 128,
     anchor_horizontal |-> args[3],
     row_count |-> args[4] % 16,
     column_count |-> args[5] % 64,
     row_lock |-> BitIsSet(args[1], 4),
     column_lock |-> BitIsSet(args[1], 3),
     visible |-> BitIsSet(args[1], 5),
     window_style_id |-> (args[6] \div 8) % 8,
     pen_style_id |-> args[6] % 8]

\* the predefined window styles, pen attributes and pen colors: 7 of each
PredefinedStyles == 7

\* TABLE[id as usize - 1]: the subtraction overflows for id 0 (a panic in a
\* build with overflow checks, an index past the table in one without);
\* style is the number of the table entry returned
StyleAt(id) ==
    IF id - 1 < 0 \/ id - 1 >= PredefinedStyles
    THEN [panic |-> TRUE, style |-> 0]
    ELSE [panic |-> FALSE, style |-> id]

\* DefineWindowArgs::window_attributes
WindowAttributes(args) == StyleAt(args.window_style_id)

\* DefineWindowArgs::pen_attributes
PenAttributes(args) == StyleAt(args.pen_style_id)

\* DefineWindowArgs::pen_color
PenColor(args) == StyleAt(args.pen_style_id)

\* From<DefineWindowArgs> for [u8; 6]
DefineWindowArgsInto(args) ==
    << (args.priority % 8) + 8 * U8FromBool(args.column_lock)
           + 16 * U8FromBool(args.row_lock) + 32 * U8FromBool(args.visible),
       (args.anchor_vertical % 128)
           + 128 * U8FromBool(args.relative_positioning),
       args.anchor_horizontal,
       (args.row_count % 16) + 16 * args.anchor_point,
       args.column_count % 64,
       (args.pen_style_id % 8) + 8 * (args.window_style_id % 8) >>

\* From<u8> for Color
ColorFrom(c) == [r |-> (c \div 16) % 4, g |-> (c \div 4) % 4, b |-> c % 4]

\* From<Color> for u8
ColorInto(c) == 16 * c.r + 4 * c.g + c.b

\* From<u8> for ColorOpacity: <<color, opacity>>
ColorOpacityFrom(c_o) == <<ColorFrom(c_o % 64), c_o \div 64>>

\* From<ColorOpacity> for u8
ColorOpacityInto(color, opacity) == 64 * opacity + ColorInto(color)

\* From<[u8; 4]> for SetWindowAttributesArgs
SetWindowAttributesArgsFrom(args) ==
    [justify |-> args[3] % 4,
     print_direction |-> (args[3] \div 16) % 4,
     scroll_direction |-> (args[3] \div 4) % 4,
     wordwrap |-> BitIsSet(args[3], 6),
     display_effect |-> args[4] % 4,
     effect_direction |-> (args[4] \div 4) % 4,
     effect_speed |-> args[4] \div 16,
     fill_color |-> ColorOpacityFrom(args[1])[1],
     fill_opacity |-> ColorOpacityFrom(args[1])[2],
     border_type |-> args[2] \div 64 + 4 * (args[3] \div 128),
     border_color |-> ColorFrom(args[2])]

\* From<SetWindowAttributesArgs> for [u8; 4]
SetWindowAttributesArgsInto(args) ==
    << ColorOpacityInto(args.fill_color, args.fill_opacity),
       64 * (args.border_type % 4) + ColorInto(args.border_color),
       128 * (args.border_type \div 4) + 64 * U8FromBool(args.wordwrap)
           + 16 * args.print_direction + 4 * args.scroll_direction
           + args.justify,
       ((16 * args.effect_speed) % 256) + 4 * args.effect_direction
           + args.display_effect >>

\* From<[u8; 2]> for SetPenAttributesArgs
SetPenAttributesArgsFrom(args) ==
    [pen_size |-> args[1] % 4,
     font_style |-> args[2] % 8,
     text_tag |-> args[1] \div 16,
     offset |-> (args[1] \div 4) % 4,
     italics |-> BitIsSet(args[2], 7),
     underline |-> BitIsSet(args[2], 6),
     edge_type |-> (args[2] \div 8) % 8]

\* From<SetPenAttributesArgs> for [u8; 2]
SetPenAttributesArgsInto(args) ==
    << args.pen_size + 4 * args.offset + 16 * args.text_tag,
       args.font_style + 8 * args.edge_type
           + 64 * U8FromBool(args.underline)
           + 128 * U8FromBool(args.italics) >>

\* From<[u8; 3]> for SetPenColorArgs
SetPenColorArgsFrom(data) ==
    [foreground_color |-> ColorOpacityFrom(data[1])[1],
     foreground_opacity |-> ColorOpacityFrom(data[1])[2],
     background_color |-> ColorOpacityFrom(data[2])[1],
     background_opacity |-> ColorOpacityFrom(data[2])[2],
     edge_color |-> ColorFrom(data[3])]

\* From<SetPenColorArgs> for [u8; 3]
SetPenColorArgsInto(data) ==
    << ColorOpacityInto(data.foreground_color, data.foreground_opacity),
       ColorOpacityInto(data.background_color, data.background_opacity),
       ColorInto(data.edge_color) >>

\* From<[u8; 2]> for SetPenLocationArgs
SetPenLocationArgsFrom(data) == [row |-> data[1] % 16, column |-> data[2] % 64]

\* From<SetPenLocationArgs> for [u8; 2]
SetPenLocationArgsInto(data) == <<data.row % 16, data.column % 64>>

MkCode(tag, data) == [tag |-> tag, data |-> data]

\* Ext1::parse
Ext1Parse(data) == MkCode("Ext1Unknown", data)

\* Ext1::byte_len
Ext1ByteLen(c) == Len(c.data)

\* Code::parse_element, size being Code::expected_size(data)
CodeParseSized(data, size) ==
    IF ~size.ok THEN size
    ELSE IF Len(data) > size.v THEN Err(size.v, Len(data))
    ELSE IF InCodeMapTable(data) THEN Ok(MkCode("Table", data))
    ELSE LET b == data[1] IN
         CASE b = 16  -> Ok(Ext1Parse(Drop(data, 1)))
           [] b = 24  -> Ok(MkCode("P16", <<data[2] * 256 + data[3]>>))
           [] b = 136 -> Ok(MkCode("ClearWindows", SubSeq(data, 2, 2)))
           [] b = 137 -> Ok(MkCode("DisplayWindows", SubSeq(data, 2, 2)))
           [] b = 138 -> Ok(MkCode("HideWindows", SubSeq(data, 2, 2)))
           [] b = 139 -> Ok(MkCode("ToggleWindows", SubSeq(data, 2, 2)))
           [] b = 140 -> Ok(MkCode("DeleteWindows", SubSeq(data, 2, 2)))
           [] b = 144 -> Ok(MkCode("SetPenAttributes",
                          SetPenAttributesArgsFrom(SubSeq(data, 2, 3))))
           [] b = 145 -> Ok(MkCode("SetPenColor",
                          SetPenColorArgsFrom(SubSeq(data, 2, 4))))
           [] b = 146 -> Ok(MkCode("SetPenLocation",
                          SetPenLocationArgsFrom(SubSeq(data, 2, 3))))
           [] b = 151 -> Ok(MkCode("SetWindowAttributes",
                          SetWindowAttributesArgsFrom(SubSeq(data, 2, 5))))
           [] b \in 152..159 ->
                Ok(MkCode("DefineWindow",
                          [DefineWindowArgsFrom(SubSeq(data, 2, 7))
                               EXCEPT !.window_id = b % 8]))
           [] OTHER   -> Ok(MkCode("Unknown", data))

\* Code::parse_element
CodeParseElement(data) == CodeParseSized(data, CodeExpectedSize(data))

\* Code::from_data: the loop; the element of size bytes is given to
\* parse_element, which reads its expected_size again
RECURSIVE CodeFromDataLoop(_, _)
CodeFromDataNext(data_iter, ret, size, element) ==
    IF ~element.ok THEN element
    ELSE CodeFromDataLoop(Drop(data_iter, size), Append(ret, element.v))

CodeFromDataSized(data_iter, ret, size) ==
    IF ~size.ok THEN size
    ELSE IF Len(data_iter) < size.v THEN Err(size.v, Len(data_iter))
    ELSE CodeFromDataNext(data_iter, ret, size.v,
                          CodeParseElement(Take(data_iter, size.v)))

CodeFromDataLoop(data_iter, ret) ==
    IF data_iter = <<>> THEN Ok(ret)
    ELSE CodeFromDataSized(data_iter, ret, CodeExpectedSize(data_iter))

CodeFromData(data) == CodeFromDataLoop(data, <<>>)

\* Code::byte_len; -1 stands for the unreachable!() arm
CodeByteLen(c) ==
    CASE c.tag = "Table"               -> Len(c.data)
      [] c.tag = "Ext1Unknown"         -> Ext1ByteLen(c)
      [] c.tag = "P16"                 -> 3
      [] c.tag = "ClearWindows"        -> 2
      [] c.tag = "DisplayWindows"      -> 2
      [] c.tag = "HideWindows"         -> 2
      [] c.tag = "ToggleWindows"       -> 2
      [] c.tag = "DeleteWindows"       -> 2
      [] c.tag = "SetPenAttributes"    -> 3
      [] c.tag = "SetPenColor"         -> 4
      [] c.tag = "SetPenLocation"      -> 3
      [] c.tag = "SetWindowAttributes" -> 5
      [] c.tag = "DefineWindow"        -> 7
      [] c.tag = "Unknown"             -> Len(c.data)
      [] OTHER                         -> -1

\* Code::write: the bytes written
CodeWrite(c) ==
    CASE c.tag = "Table"               -> c.data
      [] c.tag = "Ext1Unknown"         -> <<16>> \o c.data
      [] c.tag = "P16"                 ->
            <<24, c.data[1] \div 256, c.data[1] % 256>>
      [] c.tag = "ClearWindows"        -> <<136>> \o c.data
      [] c.tag = "DisplayWindows"      -> <<137>> \o c.data
      [] c.tag = "HideWindows"         -> <<138>> \o c.data
      [] c.tag = "ToggleWindows"       -> <<139>> \o c.data
      [] c.tag = "DeleteWindows"       -> <<140>> \o c.data
      [] c.tag = "SetPenAttributes"    ->
            <<144>> \o SetPenAttributesArgsInto(c.data)
      [] c.tag = "SetPenColor"         ->
            <<145>> \o SetPenColorArgsInto(c.data)
      [] c.tag = "SetPenLocation"      ->
            <<146>> \o SetPenLocationArgsInto(c.data)
      [] c.tag = "SetWindowAttributes" ->
            <<151>> \o SetWindowAttributesArgsInto(c.data)
      [] c.tag = "DefineWindow"        ->
            <<152 + (c.data.window_id % 8)>> \o DefineWindowArgsInto(c.data)
      [] c.tag = "Unknown"             -> c.data
      [] OTHER                         -> <<>>

\* the variants neither in CODE_MAP_TABLE nor in an arm of the match of
\* Code::byte_len and Code::write: both end in unreachable!()
CodeIsUnreachable(c) ==
    c.tag \notin {"Table", "Ext1Unknown", "P16", "ClearWindows",
                  "DisplayWindows", "HideWindows", "ToggleWindows",
                  "DeleteWindows", "SetPenAttributes", "SetPenColor",
                  "SetPenLocation", "SetWindowAttributes", "DefineWindow",
                  "Unknown"}

(***************************************************************************)
(* packet.rs: Service = [number, codes], DTVCCPacket = [seq_no, services]  *)
(***************************************************************************)
\* the sum of s[lo..hi], taken by halves
RECURSIVE SumRange(_, _, _)
SumRange(s, lo, hi) ==
    LET Halves(mid) == SumRange(s, lo, mid) + SumRange(s, mid + 1, hi)
    IN IF lo > hi THEN 0
       ELSE IF lo = hi THEN s[lo]
       ELSE ByValue(Halves, (lo + hi) \div 2)

\* the sum of a sequence of numbers; s_ \o <<>> is s_ with its elements
\* worked out
SumSeq(s_) ==
    LET Sum(s) == SumRange(s, 1, Len(s))
    IN ByValue(Sum, s_ \o <<>>)

\* ss[lo] to ss[hi] joined in order, by halves
RECURSIVE ConcatRange(_, _, _)
ConcatRange(ss, lo, hi) ==
    LET Halves(mid) == ConcatRange(ss, lo, mid) \o ConcatRange(ss, mid + 1, hi)
    IN IF lo > hi THEN <<>>
       ELSE IF lo = hi THEN ss[lo]
       ELSE ByValue(Halves, (lo + hi) \div 2)

\* the sequences of a sequence joined in order
Concat(ss_) ==
    LET Joined(ss) == ConcatRange(ss, 1, Len(ss))
    IN ByValue(Joined, ss_ \o <<>>)

\* Service::new
ServiceNew(service_no) == [number |-> service_no, codes |-> <<>>]

\* Service::codes_len
ServiceCodesLen(s) == SumSeq([i \in 1..Len(s.codes) |-> CodeByteLen(s.codes[i])])

\* Service::free_space
ServiceFreeSpace(s) == 31 - ServiceCodesLen(s)

\* Service::len
ServiceLen(s) ==
    IF s.number = 0 THEN 0
    ELSE IF s.codes = <<>> THEN 0
    ELSE (IF s.number >= 7 THEN 2 ELSE 1) + ServiceCodesLen(s)

\* Service::is_empty
ServiceIsEmpty(s) == s.codes = <<>>

\* a push_code that refuses a code that fills the block to the last byte
ServicePushCodeStrict(s, code) ==
    IF s.number = 0 THEN [res |-> "ReadOnly", over |-> 0, service |-> s]
    ELSE IF CodeByteLen(code) >= ServiceFreeSpace(s)
    THEN [res |-> "WouldOverflow",
          over |-> CodeByteLen(code) - ServiceFreeSpace(s), service |-> s]
    ELSE [res |-> "Ok", over |-> 0,
          service |-> [s EXCEPT !.codes = Append(@, code)]]

\* Service::push_code: [res, service]
ServicePushCode(s, code) ==
    IF s.number = 0 THEN [res |-> "ReadOnly", over |-> 0, service |-> s]
    ELSE IF CodeByteLen(code) > ServiceFreeSpace(s)
    THEN [res |-> "WouldOverflow",
          over |-> CodeByteLen(code) - ServiceFreeSpace(s), service |-> s]
    ELSE [res |-> "Ok", over |-> 0,
          service |-> [s EXCEPT !.codes = Append(@, code)]]

\* Service { number, codes: Code::from_data(..)? }
ServiceOf(service_no, codes) ==
    IF codes.ok THEN Ok([number |-> service_no, codes |-> codes.v])
    ELSE codes

\* Service::parse behind the header: idx header bytes, then the block
ServiceParseBlock(data, service_no, idx, block_size) ==
    IF Len(data) < idx + block_size THEN Err(idx + block_size, Len(data))
    ELSE IF service_no # 0
    THEN ServiceOf(service_no,
                   CodeFromData(SubSeq(data, idx + 1, idx + block_size)))
    ELSE Ok([number |-> 0, codes |-> <<>>])

\* Service::parse
ServiceParse(data) ==
    IF data = <<>> THEN Err(1, 0)
    ELSE IF data[1] \div 32 = 7 /\ data[1] % 32 # 0
    THEN IF Len(data) = 1 THEN Err(2, Len(data))
         ELSE ServiceParseBlock(data, data[2] % 64, 2, data[1] % 32)
    ELSE ServiceParseBlock(data, data[1] \div 32, 1, data[1] % 32)

\* Service::write: the bytes written
ServiceWrite(s) ==
    LET len == ServiceCodesLen(s) % 64
        \* (number & 0x7) << 5 | len: bit 5 of len is or-ed into the number
        no == IF len >= 32 /\ s.number % 2 = 0 THEN (s.number % 8) + 1
              ELSE s.number % 8
        hdr == IF s.number >= 7 THEN <<224 + (len % 32), s.number>>
               ELSE <<no * 32 + (len % 32)>>
    IN hdr \o Concat([i \in 1..Len(s.codes) |-> CodeWrite(s.codes[i])])

\* DTVCCPacket::new
DTVCCPacketNew(seq_no) == [seq_no |-> seq_no, services |-> <<>>]

\* DTVCCPacket::len
DTVCCPacketLen(p) ==
    LET services_len ==
            SumSeq([i \in 1..Len(p.services) |-> ServiceLen(p.services[i])])
    IN IF services_len > 0 THEN 1 + services_len ELSE 0

\* a free_space that counts the header byte as free
DTVCCPacketFreeSpaceWide(p) == 129 - DTVCCPacketLen(p)

\* DTVCCPacket::free_space
DTVCCPacketFreeSpace(p) == 128 - DTVCCPacketLen(p)

\* DTVCCPacket::push_service: [res, packet]
DTVCCPacketPushService(p, service) ==
    IF ServiceLen(service) > DTVCCPacketFreeSpace(p)
    THEN [res |-> "WouldOverflow",
          over |-> ServiceLen(service) - DTVCCPacketFreeSpace(p), packet |-> p]
    ELSE IF ServiceIsEmpty(service)
    THEN [res |-> "EmptyService", over |-> 0, packet |-> p]
    ELSE [res |-> "Ok", over |-> 0,
          packet |-> [p EXCEPT !.services = Append(@, service)]]

\* DTVCCPacket::parse_hdr_byte: <<seq_no, len>>
ParseHdrByte(byte) ==
    LET len == byte % 64
    IN <<byte \div 64, IF len = 0 THEN 127 ELSE len * 2 - 1>>

\* the service loop of DTVCCPacket::parse; offset counts from 0
RECURSIVE ParseServices(_, _, _)
\* one turn of the loop, len being service.len() of the service parsed
ParseServicesAdvance(data, offset, services, service, len) ==
    IF len = 0 THEN ParseServices(data, offset + 1, services)
    ELSE ParseServices(data, offset + len, Append(services, service))

ParseServicesNext(data, offset, services, service) ==
    IF ~service.ok THEN service
    ELSE ParseServicesAdvance(data, offset, services, service.v,
                              ServiceLen(service.v))

ParseServices(data, offset, services) ==
    IF offset >= Len(data) THEN Ok(services)
    ELSE ParseServicesNext(data, offset, services,
                           ServiceParse(Drop(data, offset)))

\* Ok(Self { seq_no, services })
DTVCCPacketOf(seq_no, services) ==
    IF services.ok THEN Ok([seq_no |-> seq_no, services |-> services.v])
    ELSE services

\* DTVCCPacket::parse
DTVCCPacketParse(data) ==
    IF data = <<>> THEN Err(1, 0)
    ELSE IF ParseHdrByte(data[1])[2] + 1 < Len(data)
    THEN Err(ParseHdrByte(data[1])[2] + 1, Len(data))
    ELSE DTVCCPacketOf(ParseHdrByte(data[1])[1], ParseServices(data, 1, <<>>))

\* DTVCCPacket::cc_count
CcCount(p) == (DTVCCPacketLen(p) + 1) \div 2

\* DTVCCPacket::hdr_byte
HdrByte(p) == (p.seq_no % 4) * 64 + (CcCount(p) % 64)

\* the bytes all services of the packet write
ServicesWritten(p) ==
    Concat([i \in 1..Len(p.services) |-> ServiceWrite(p.services[i])])

\* DTVCCPacket::write: the bytes written
DTVCCPacketWrite(p) ==
    <<HdrByte(p)>> \o ServicesWritten(p)
        \o (IF DTVCCPacketLen(p) % 2 = 1 THEN <<0>> ELSE <<>>)

\* written[1..].chunks(2), each behind 0xFE and padded with 0x00
ContinuationTriples(rest_) ==
    LET Chunk(rest, k) ==
            <<254, rest[2 * k - 1],
              IF 2 * k <= Len(rest) THEN rest[2 * k] ELSE 0>>
        Triples(rest) ==
            Concat([k \in 1..((Len(rest) + 1) \div 2) |-> Chunk(rest, k)])
    IN ByValue(Triples, rest_)

\* DTVCCPacket::write_as_cc_data: the bytes appended to the sink
WriteAsCcData(p_) ==
    LET AsCcData(p) ==
            IF p.services = <<>> THEN <<>>
            ELSE LET written == ServicesWritten(p) IN
                 <<255, HdrByte(p), written[1]>> \o ContinuationTriples(Drop(written, 1))
    IN ByValue(AsCcData, p_)

(***************************************************************************)
(* parser.rs: CCDataParser                                                 *)
(* The parser is the record [pending_data, packets, cea608,                *)
(* have_initial_ccp_header, ccp_bytes_needed]; cea608 is an Option:        *)
(* [is_some, v].                                                           *)
(***************************************************************************)
\* CCDataParser::new / Default
ParserNew ==
    [pending_data |-> <<>>, packets |-> <<>>,
     cea608 |-> [is_some |-> FALSE, v |-> <<>>],
     have_initial_ccp_header |-> FALSE, ccp_bytes_needed |-> 0]

\* Cea608::Field1(b0, b1) / Cea608::Field2(b0, b1)
Cea608Pair(cc_type, byte0, byte1) ==
    [field |-> IF cc_type = 0 THEN "Field1" ELSE "Field2",
     byte0 |-> byte0, byte1 |-> byte1]

\* a queue that grows at the back, where pop_back takes from
PushBack(q, x) == Append(q, x)

\* VecDeque::push_front
PushFront(q, x) == <<x>> \o q

\* VecDeque::pop_back: the queue that is left
PopBackRest(q) == SubSeq(q, 1, Len(q) - 1)

\* cc_valid and cc_type of a control byte
CcValid(byte0) == (byte0 \div 4) % 2 = 1

CcType(byte0) == byte0 % 4

\* pending bytes wrapped again with every triple behind 0xFE, the start of
\* the packet no longer marked
RECURSIVE RewrapAsData(_, _)
RewrapAsData(pending, i) ==
    IF pending = <<>> THEN <<>>
    ELSE <<254>>
            \o Take(pending, Min(2, Len(pending)))
            \o (IF Len(pending) = 1 THEN <<0>> ELSE <<>>)
            \o RewrapAsData(Drop(pending, Min(2, Len(pending))), i + 1)

\* the pending bytes wrapped again as triples (the first behind 0xFF, the
\* others behind 0xFE, an odd last byte padded with 0x00)
RECURSIVE Rewrap(_, _)
Rewrap(pending, i) ==
    IF pending = <<>> THEN <<>>
    ELSE <<IF i = 0 THEN 255 ELSE 254>>
            \o Take(pending, Min(2, Len(pending)))
            \o (IF Len(pending) = 1 THEN <<0>> ELSE <<>>)
            \o Rewrap(Drop(pending, Min(2, Len(pending))), i + 1)

\* the position counted in the frame and not in the triple area
BytePosInFrame(i) == i * 3 + 2

\* the byte_pos reported for triple i of the triple area
BytePos(i) == i * 3

\* the first pass of push over data[2..].chunks_exact(3), from triple i on:
\* st = [in_dtvcc, cea608 (the pairs pushed), ret (-1: None), err, byte_pos]
RECURSIVE FirstPass(_, _, _, _)
FirstPass(data, i, track, st) ==
    IF 2 + 3 * i + 3 > Len(data) THEN st
    ELSE LET byte0 == data[2 + 3 * i + 1]
             cc_valid == CcValid(byte0)
             cc_type == CcType(byte0)
             in_dtvcc == st.in_dtvcc \/ cc_type >= 2
             st1 == [st EXCEPT !.in_dtvcc = in_dtvcc]
         IN IF ~cc_valid THEN FirstPass(data, i + 1, track, st1)
            ELSE IF ~in_dtvcc /\ cc_type \in {0, 1}
            THEN FirstPass(data, i + 1, track,
                    IF track
                    THEN [st1 EXCEPT !.cea608 = Append(@,
                            Cea608Pair(cc_type, data[2 + 3 * i + 2],
                                       data[2 + 3 * i + 3]))]
                    ELSE st1)
            ELSE IF in_dtvcc /\ cc_type \in {0, 1}
            THEN [st1 EXCEPT !.err = TRUE, !.byte_pos = BytePos(i)]
            ELSE FirstPass(data, i + 1, track,
                    IF st1.ret = -1 THEN [st1 EXCEPT !.ret = i * 3] ELSE st1)

\* a parse error that is not swallowed but escapes push
EmitParsedOrFail(st, parsed) ==
    IF parsed.ok THEN [st EXCEPT !.packets = <<parsed.v>> \o @]
    ELSE [st EXCEPT !.panic = TRUE]

\* match DTVCCPacket::parse(&ccp_data): Ok(packet) is pushed to the front of
\* the queue, Err(LengthMismatch) is dropped; parse gives no other error
EmitParsed(st, parsed) ==
    IF parsed.ok THEN [st EXCEPT !.packets = PushFront(@, parsed.v)] ELSE st

\* a header that emits the buffered packet but keeps the buffered bytes
OnCcpHeaderKeepBuffer(st, byte1) ==
    LET parsed == DTVCCPacketParse(st.ccp_data) IN
    [(IF parsed.ok THEN [st EXCEPT !.packets = <<parsed.v>> \o @] ELSE st)
        EXCEPT !.have_initial_ccp_header = TRUE,
               !.in_dtvcc = FALSE,
               !.ccp_bytes_needed = ParseHdrByte(byte1)[2] + 1,
               !.log = Append(@, [at |-> "header", bytes |-> st.ccp_data,
                                  ok |-> parsed.ok])]

\* a triple of cc_type 0b11 in the reassembly pass: the buffered bytes are
\* parsed and emitted or dropped, the buffer restarts, the header byte
\* tells the bytes needed.  log notes each parse attempt (at, bytes, ok).
OnCcpHeaderParsed(st, byte1, parsed) ==
    [EmitParsed(st, parsed) EXCEPT
               !.have_initial_ccp_header = TRUE,
               !.in_dtvcc = FALSE,
               !.ccp_data = <<>>,
               !.ccp_bytes_needed = ParseHdrByte(byte1)[2] + 1,
               !.log = Append(@, [at |-> "header", bytes |-> st.ccp_data,
                                  ok |-> parsed.ok])]

OnCcpHeader(st, byte1) ==
    OnCcpHeaderParsed(st, byte1, DTVCCPacketParse(st.ccp_data))

\* a reassembly that keeps the bytes of triples met before any header
AppendPayloadUnheaded(st, byte1, byte2) ==
    [st EXCEPT !.ccp_data = @ \o <<byte1, byte2>>]

\* if self.have_initial_ccp_header { push byte1, byte2 while bytes are needed }
AppendPayload(st, byte1, byte2) ==
    IF ~st.have_initial_ccp_header THEN st
    ELSE LET st1 == IF st.ccp_bytes_needed > 0
                    THEN [st EXCEPT !.ccp_data = Append(@, byte1),
                                    !.ccp_bytes_needed = @ - 1]
                    ELSE st
         IN IF st1.ccp_bytes_needed > 0
            THEN [st1 EXCEPT !.ccp_data = Append(@, byte2),
                             !.ccp_bytes_needed = @ - 1]
            ELSE st1

\* the reassembly loop of push over the chained bytes, from byte i on
RECURSIVE Reassemble(_, _, _)
Reassemble(chain, i, st) ==
    IF i + 3 > Len(chain) \/ st.panic THEN st
    ELSE LET byte0 == chain[i + 1]
             byte1 == chain[i + 2]
             byte2 == chain[i + 3]
             cc_valid == CcValid(byte0)
             cc_type == CcType(byte0)
             st1 == [st EXCEPT !.in_dtvcc = @ \/ cc_type >= 2]
         IN IF ~cc_valid THEN Reassemble(chain, i + 3, st1)
            ELSE IF ~st1.in_dtvcc /\ cc_type \in {0, 1}
            THEN [st1 EXCEPT !.panic = TRUE]
            ELSE LET st2 == IF cc_type = 3 THEN OnCcpHeader(st1, byte1)
                            ELSE st1
                 IN Reassemble(chain, i + 3, AppendPayload(st2, byte1, byte2))

\* if self.ccp_bytes_needed == 0 { parse, emit, clear }
\* self.pending_data = ccp_data
FinishPushParsed(st, parsed) ==
    [EmitParsed(st, parsed) EXCEPT
               !.ccp_data = <<>>,
               !.log = Append(@, [at |-> "end", bytes |-> st.ccp_data,
                                  ok |-> parsed.ok])]

\* a push that leaves a whole payload waiting for the next header
FinishPushWaits(st) == st

\* a push that emits the whole packet and still carries its bytes over
FinishPushKeepsBytes(st) ==
    IF st.ccp_bytes_needed = 0
    THEN [EmitParsed(st, DTVCCPacketParse(st.ccp_data)) EXCEPT
             !.log = Append(@, [at |-> "end", bytes |-> st.ccp_data,
                                ok |-> DTVCCPacketParse(st.ccp_data).ok])]
    ELSE st

FinishPush(st) ==
    IF st.ccp_bytes_needed = 0
    THEN FinishPushParsed(st, DTVCCPacketParse(st.ccp_data))
    ELSE st

PushResult(kind, expected, actual, byte_pos) ==
    [kind |-> kind, expected |-> expected, actual |-> actual,
     byte_pos |-> byte_pos]

PushOk == PushResult("Ok", 0, 0, 0)

\* the expected length reported in the LengthMismatch of push
PushExpectedLen(cc_count) == cc_count * 3 + 1

\* a header check that lets frames longer than cc_count triples through
HeaderLenAtLeast(cc_count, len) == cc_count * 3 + 2 <= len

\* (cc_count * 3 + 2) as usize != data.len()
HeaderLenOk(cc_count, len) == cc_count * 3 + 2 = len

\* a push that does not clear the pairs of the frame before
KeepCea608(parser) == parser

\* if let Some(ref mut cea608) = self.cea608 { cea608.clear() }
ClearCea608(parser) == [parser EXCEPT !.cea608.v = <<>>]

\* an early return that throws the pending payload away
ReturnEarlyDropPending(parser, result) ==
    [parser |-> [parser EXCEPT !.pending_data = <<>>,
                               !.ccp_bytes_needed = 0],
     result |-> result, chain |-> <<>>, log |-> <<>>]

\* a return of push before the reassembly pass: self is left as it is
\* (chain and log are empty: nothing was walked)
ReturnEarly(parser, result) ==
    [parser |-> parser, result |-> result, chain |-> <<>>, log |-> <<>>]

\* CCDataParser::push behind the reassembly pass: st is what the pass left
PushWalked(seen, chain, st) ==
    [parser |->
        [seen EXCEPT !.pending_data = st.ccp_data,
                     !.packets = st.packets,
                     !.have_initial_ccp_header = st.have_initial_ccp_header,
                     !.ccp_bytes_needed = st.ccp_bytes_needed],
     result |-> IF st.panic THEN PushResult("Panic", 0, 0, 0) ELSE PushOk,
     chain |-> chain, log |-> st.log]

\* CCDataParser::push from the reassembly pass on: chain is
\* pending_data.iter().chain(data[ccp_offset..].iter())
PushReassemble(parser, seen, chain) ==
    PushWalked(seen, chain,
        FinishPush(Reassemble(chain, 0,
            [ccp_data |-> <<>>, in_dtvcc |-> FALSE,
             have_initial_ccp_header |-> parser.have_initial_ccp_header,
             ccp_bytes_needed |-> parser.ccp_bytes_needed,
             packets |-> parser.packets,
             panic |-> FALSE, log |-> <<>>])))

\* CCDataParser::push behind the first pass: first is what the pass found
PushFound(parser, cleared, data, first) ==
    IF first.err
    THEN ReturnEarly([cleared EXCEPT !.cea608.v = first.cea608],
            PushResult("Cea608AfterCea708", 0, 0, first.byte_pos))
    ELSE IF first.ret = -1
    THEN ReturnEarly([cleared EXCEPT !.cea608.v = first.cea608], PushOk)
    ELSE PushReassemble(parser, [cleared EXCEPT !.cea608.v = first.cea608],
            Rewrap(parser.pending_data, 0) \o Drop(data, 2 + first.ret))

\* CCDataParser::push behind cea608.clear()
PushCleared(parser, cleared, data) ==
    IF Len(data) < 5 THEN ReturnEarly(cleared, PushOk)
    ELSE IF (data[1] \div 64) % 2 = 0 THEN ReturnEarly(cleared, PushOk)
    ELSE IF data[1] % 32 = 0 THEN ReturnEarly(cleared, PushOk)
    ELSE IF ~HeaderLenOk(data[1] % 32, Len(data))
    THEN ReturnEarly(cleared,
            PushResult("LengthMismatch", PushExpectedLen(data[1] % 32),
                       Len(data), 0))
    ELSE PushFound(parser, cleared, data,
            FirstPass(data, 0, parser.cea608.is_some,
                [in_dtvcc |-> FALSE, cea608 |-> cleared.cea608.v,
                 ret |-> -1, err |-> FALSE, byte_pos |-> 0]))

\* CCDataParser::push: [parser, result, chain, log]; chain and log tell
\* what the reassembly pass walked and which buffers it tried to parse
Push(parser, data) == PushCleared(parser, ClearCea608(parser), data)

\* CCDataParser::handle_cea608
HandleCea608(parser) == [parser EXCEPT !.cea608 = [is_some |-> TRUE, v |-> <<>>]]

\* a flush that keeps the payload of the packet being assembled
ParserFlushKeepPending(parser) ==
    [ParserNew EXCEPT
        !.pending_data = parser.pending_data,
        !.have_initial_ccp_header = parser.have_initial_ccp_header,
        !.ccp_bytes_needed = parser.ccp_bytes_needed]

\* CCDataParser::flush
ParserFlush(parser) == ParserNew

\* CCDataParser::pop_packet: [parser, ret]; ret is <<>> (None) or <<packet>>
PopPacket(parser) ==
    IF parser.packets = <<>> THEN [parser |-> parser, ret |-> <<>>]
    ELSE [parser |-> [parser EXCEPT !.packets = PopBackRest(@)],
          ret |-> <<parser.packets[Len(parser.packets)]>>]

\* CCDataParser::cea608
Cea608Of(parser) == parser.cea608

(***************************************************************************)
(* lib.rs: Framerate.  A framerate is <<numer, denom>>.                    *)
\* a * b / c with the fraction dropped
MulDivFloor(a, b, c) == (a * b) \div c

(***************************************************************************)
\* muldiv: a * b / c rounded to the nearest, halves up
MulDivRound(a, b, c) == (a * b + c \div 2) \div c

\* Framerate::cea608_pairs_per_field, which writer.rs calls
\* cea608_pairs_per_frame
Cea608PairsPerFrame(framerate) == MulDivRound(60, framerate[2], framerate[1])

\* Framerate::max_cc_count
MaxCcCount(framerate) == MulDivRound(600, framerate[2], framerate[1])

(***************************************************************************)
(* writer.rs: CCDataWriter                                                 *)
(* The writer is the record [output_cea608_padding, output_padding,        *)
(* packets, pending_packet_data, cea608_1, cea608_2,                       *)
(* last_cea608_was_field1]; a byte pair is <<byte0, byte1>>.               *)
(***************************************************************************)
\* CCDataWriter::default
WriterNew ==
    [output_cea608_padding |-> FALSE, output_padding |-> FALSE,
     packets |-> <<>>, pending_packet_data |-> <<>>,
     cea608_1 |-> <<>>, cea608_2 |-> <<>>,
     last_cea608_was_field1 |-> FALSE]

\* CCDataWriter::set_output_cea608_padding
SetOutputCea608Padding(w, on) == [w EXCEPT !.output_cea608_padding = on]

\* CCDataWriter::set_output_padding
SetOutputPadding(w, on) == [w EXCEPT !.output_padding = on]

\* a push_packet that queues at the end pop_back takes from
PushPacketBack(w, packet) == [w EXCEPT !.packets = Append(@, packet)]

\* CCDataWriter::push_packet
PushPacket(w, packet) == [w EXCEPT !.packets = PushFront(@, packet)]

\* a push_cea608 that leaves out a pair when either byte is 0x80
PushCea608EitherPad(w, cea608) ==
    IF cea608.byte0 # 128 /\ cea608.byte1 # 128
    THEN IF cea608.field = "Field1"
         THEN [w EXCEPT !.cea608_1 = PushFront(@, <<cea608.byte0, cea608.byte1>>)]
         ELSE [w EXCEPT !.cea608_2 = PushFront(@, <<cea608.byte0, cea608.byte1>>)]
    ELSE w

\* CCDataWriter::push_cea608: the pair 0x80 0x80 is not queued
PushCea608(w, cea608) ==
    IF cea608.byte0 # 128 \/ cea608.byte1 # 128
    THEN IF cea608.field = "Field1"
         THEN [w EXCEPT !.cea608_1 = PushFront(@, <<cea608.byte0, cea608.byte1>>)]
         ELSE [w EXCEPT !.cea608_2 = PushFront(@, <<cea608.byte0, cea608.byte1>>)]
    ELSE w

\* a flush that keeps the rest of the packet being written
WriterFlushKeepPending(w) ==
    [w EXCEPT !.packets = <<>>, !.cea608_1 = <<>>, !.cea608_2 = <<>>]

\* CCDataWriter::flush
WriterFlush(w) ==
    [w EXCEPT !.packets = <<>>, !.pending_packet_data = <<>>,
              !.cea608_1 = <<>>, !.cea608_2 = <<>>]

\* muldiv: a * b / c rounded up
MulDivCeil(a, b, c) == (a * b + c - 1) \div c

\* CCDataWriter::buffered_cea608_field1_duration, in microseconds;
\* 1001 * 1_000_000 / 60000 is written in lowest terms, 50050 / 3
BufferedCea608Field1Duration(w) == MulDivCeil(Len(w.cea608_1), 50050, 3)

\* CCDataWriter::buffered_cea608_field2_duration, in microseconds
BufferedCea608Field2Duration(w) == MulDivCeil(Len(w.cea608_2), 50050, 3)

\* CCDataWriter::buffered_packet_bytes
BufferedPacketBytes(w) ==
    Len(w.pending_packet_data)
        + SumSeq([i \in 1..Len(w.packets) |-> DTVCCPacketLen(w.packets[i])])

\* CCDataWriter::buffered_packet_duration, in microseconds;
\* 2 * 1001 * 1_000_000 / (9_600_000 / 8) is written in lowest terms,
\* 5005 / 3
BufferedPacketDuration(w) ==
    MulDivCeil((BufferedPacketBytes(w) + 1) \div 2, 5005, 3)

\* a cea608 slot that writes no field 1 filler ahead of a field 2 pair
WriteCea608SlotNoPad(st) ==
    LET w == st.w
        wrote(triple, w1) ==
            [st EXCEPT !.w = w1, !.out = @ \o triple,
                       !.cc_count_rem = @ - 1, !.cea608_pair_rem = @ - 1]
        skipped(w1) == [st EXCEPT !.w = w1, !.cea608_pair_rem = @ - 1]
    IN IF ~w.last_cea608_was_field1
       THEN LET w1 == [w EXCEPT !.last_cea608_was_field1 = TRUE] IN
            IF w.cea608_1 # <<>>
            THEN wrote(<<252>> \o w.cea608_1[Len(w.cea608_1)],
                       [w1 EXCEPT !.cea608_1 = PopBackRest(@)])
            ELSE IF w.output_cea608_padding THEN wrote(<<248, 128, 128>>, w1)
            ELSE skipped(w1)
       ELSE LET w1 == [w EXCEPT !.last_cea608_was_field1 = FALSE] IN
            IF w.cea608_2 # <<>>
            THEN wrote(<<253>> \o w.cea608_2[Len(w.cea608_2)],
                       [w1 EXCEPT !.cea608_2 = PopBackRest(@)])
            ELSE IF w.output_cea608_padding THEN wrote(<<249, 128, 128>>, w1)
            ELSE skipped(w1)

\* a cea608 slot that never moves on to field 2
WriteCea608SlotField1Only(st) ==
    LET w == st.w
        wrote(triple, w1) ==
            [st EXCEPT !.w = w1, !.out = @ \o triple,
                       !.cc_count_rem = @ - 1, !.cea608_pair_rem = @ - 1]
        skipped(w1) == [st EXCEPT !.w = w1, !.cea608_pair_rem = @ - 1]
    IN IF w.cea608_1 # <<>>
       THEN wrote(<<252>> \o w.cea608_1[Len(w.cea608_1)],
                  [w EXCEPT !.cea608_1 = PopBackRest(@)])
       ELSE IF w.cea608_2 # <<>> THEN wrote(<<252, 128, 128>>, w)
       ELSE IF w.output_cea608_padding THEN wrote(<<248, 128, 128>>, w)
       ELSE skipped(w)

\* the cea608 branch of the loop of write: one slot of the pair budget;
\* st = [w, out, cc_count_rem, cea608_pair_rem, done]
WriteCea608Slot(st) ==
    LET w == st.w
        wrote(triple, w1) ==
            [st EXCEPT !.w = w1, !.out = @ \o triple,
                       !.cc_count_rem = @ - 1, !.cea608_pair_rem = @ - 1]
        skipped(w1) == [st EXCEPT !.w = w1, !.cea608_pair_rem = @ - 1]
    IN IF ~w.last_cea608_was_field1
       THEN LET w1 == [w EXCEPT !.last_cea608_was_field1 = TRUE] IN
            IF w.cea608_1 # <<>>
            THEN wrote(<<252>> \o w.cea608_1[Len(w.cea608_1)],
                       [w1 EXCEPT !.cea608_1 = PopBackRest(@)])
            ELSE IF w.cea608_2 # <<>> THEN wrote(<<252, 128, 128>>, w1)
            ELSE IF w.output_cea608_padding THEN wrote(<<248, 128, 128>>, w1)
            ELSE skipped(w1)
       ELSE LET w1 == [w EXCEPT !.last_cea608_was_field1 = FALSE] IN
            IF w.cea608_2 # <<>>
            THEN wrote(<<253>> \o w.cea608_2[Len(w.cea608_2)],
                       [w1 EXCEPT !.cea608_2 = PopBackRest(@)])
            ELSE IF w.output_cea608_padding THEN wrote(<<249, 128, 128>>, w1)
            ELSE skipped(w1)

\* while packet_offset >= current_packet_data.len() (packet_offset is 0):
\* pop the oldest packet and write it as cc_data behind the pending bytes
RECURSIVE LoadPackets(_)
LoadPackets(w_) ==
    LET Load(w) ==
            IF w.pending_packet_data # <<>> \/ w.packets = <<>> THEN w
            ELSE LoadPackets(
                    [w EXCEPT !.pending_packet_data =
                                  @ \o WriteAsCcData(w.packets[Len(w.packets)]),
                              !.packets = PopBackRest(@)])
    IN ByValue(Load, w_)

\* n triples of CCP padding
RECURSIVE CcpPadding(_)
CcpPadding(n) == IF n <= 0 THEN <<>> ELSE <<250, 0, 0>> \o CcpPadding(n - 1)

\* a branch that pads and stops as soon as no bytes are pending, though
\* packets are still queued
WritePacketEndEarly(st) ==
    IF st.w.pending_packet_data = <<>>
    THEN [st EXCEPT !.done = TRUE,
                    !.out = @ \o (IF st.w.output_padding
                                  THEN CcpPadding(st.cc_count_rem)
                                  ELSE <<>>),
                    !.cc_count_rem = IF st.w.output_padding THEN 0 ELSE @]
    ELSE st

\* if self.packets.is_empty() && self.pending_packet_data.is_empty():
\* padding if asked for, and break
WritePacketEnd(st_) ==
    LET End(st) ==
            IF st.w.packets = <<>> /\ st.w.pending_packet_data = <<>>
            THEN [st EXCEPT !.done = TRUE,
                            !.out = @ \o (IF st.w.output_padding
                                          THEN CcpPadding(st.cc_count_rem)
                                          ELSE <<>>),
                            !.cc_count_rem = IF st.w.output_padding THEN 0 ELSE @]
            ELSE st
    IN ByValue(End, st_)

\* a packet branch that loses the pending bytes the budget has no room for
WritePacketTriplesDropRest(st, w, n) ==
    WritePacketEnd(
        [st EXCEPT !.w = [w EXCEPT !.pending_packet_data = <<>>],
                   !.out = @ \o Take(w.pending_packet_data, 3 * n),
                   !.cc_count_rem = @ - n])

\* n triples of the pending bytes of w are written
WritePacketTriples(st, w, n) ==
    WritePacketEnd(
        [st EXCEPT !.w = [w EXCEPT !.pending_packet_data = Drop(@, 3 * n)],
                   !.out = @ \o Take(w.pending_packet_data, 3 * n),
                   !.cc_count_rem = @ - n])

\* a packet branch that writes all the pending triples, whatever is left
\* of cc_count_rem
WritePacketLoadedAll(st, w) ==
    WritePacketTriples(st, w, Len(w.pending_packet_data) \div 3)

\* the packet branch behind the loading of packets into w
WritePacketLoaded(st, w) ==
    WritePacketTriples(st, w,
        Min(Len(w.pending_packet_data) \div 3, st.cc_count_rem))

\* the packet branch of the loop of write
WritePacketData(st_) ==
    LET Data(st) == WritePacketLoaded(st, LoadPackets(st.w))
    IN ByValue(Data, st_)

\* while cc_count_rem > 0 { ... }
RECURSIVE WriteLoop(_)
WriteLoop(st_) ==
    LET Loop(st) ==
            IF st.cc_count_rem <= 0 \/ st.done THEN st
            ELSE IF st.cea608_pair_rem > 0 THEN WriteLoop(WriteCea608Slot(st))
            ELSE WriteLoop(WritePacketData(st))
    IN ByValue(Loop, st_)

\* the cc_count the header byte of a frame carries
HeaderCcCount(cc_count_rem) == cc_count_rem % 32

\* CCDataWriter::write: [w, out], out being the bytes given to the sink
\* the writer and the bytes the loop of write leaves
WriteResult(st) == [w |-> st.w, out |-> st.out]

\* write from the header on, both budgets known
WriteBudgeted(w, cea608_pair_rem, cc_count_rem) ==
    WriteResult(WriteLoop(
        [w |-> w,
         out |-> <<128 + 64 + HeaderCcCount(cc_count_rem), 255>>,
         cc_count_rem |-> cc_count_rem,
         cea608_pair_rem |-> cea608_pair_rem,
         done |-> FALSE]))

\* write behind the budget of cea608 pairs
WritePairBudgeted(w, framerate, cea608_pair_rem) ==
    WriteBudgeted(w, cea608_pair_rem,
        IF w.output_padding THEN MaxCcCount(framerate)
        ELSE Min(MaxCcCount(framerate),
                 cea608_pair_rem + Len(w.pending_packet_data) \div 3
                    + SumSeq([i \in 1..Len(w.packets) |->
                                 CcCount(w.packets[i])])))

Write(w, framerate) ==
    WritePairBudgeted(w, framerate,
        IF w.output_cea608_padding THEN Cea608PairsPerFrame(framerate)
        ELSE Min(Cea608PairsPerFrame(framerate),
                 Max(Len(w.cea608_1), Len(w.cea608_2) * 2)))

(***************************************************************************)
(* State                                                                   *)
(* call is the operation that has just run, with its argument and what it  *)
(* returned; Return forgets it.  ready is the history the FIFO claims      *)
(* compare against: the packets completed and not yet popped, oldest       *)
(* first, noted by the reassembly log and not by the parser's queue.       *)
(* built is what a caller is building: a Service and a DTVCCPacket.  Of a  *)
(* call, was is the writer it found, arg its argument, res and over the    *)
(* WriterError it gave (or "Ok"), from the service or packet it found,     *)
(* out the bytes a write gave and ret what a parse of them returned.       *)
(***************************************************************************)
VARIABLES parser, call, ready, writer, hist, built

vars == <<parser, call, ready, writer, hist, built>>

NoCall ==
    [op |-> "none", data |-> <<>>, result |-> PushOk, chain |-> <<>>,
     log |-> <<>>, ret |-> <<>>, oldest |-> <<>>, before |-> ParserNew,
     framerate |-> <<1, 1>>, out |-> <<>>, was |-> WriterNew,
     arg |-> <<>>, res |-> "Ok", over |-> 0, from |-> <<>>, count |-> 0,
     kind |-> ""]

\* hist is what the writer was given and the count of what it has let out:
\* packets, f1, f2 are the packets and the byte pairs of each field pushed
\* since the last flush, sent_ccp, sent_1, sent_2 the DTVCC bytes and the
\* pairs written so far; got is what a parser fed with the frames has
\* popped, framerate the rate of the frames, stream the triples pushed in
\* pieces
\* pushed counts the push_code and push_service calls made
NoBuilt ==
    [service |-> ServiceNew(0), packet |-> DTVCCPacketNew(0), pushed |-> 0]

NoHist ==
    [packets |-> <<>>, f1 |-> <<>>, f2 |-> <<>>,
     sent_ccp |-> 0, sent_1 |-> 0, sent_2 |-> 0,
     got |-> <<>>, framerate |-> <<1, 1>>, stream |-> <<>>, fed |-> 0,
     last608 |-> 0, was608 |-> 0]

(***************************************************************************)
(* Bounds and inputs of the parser specification                           *)
(***************************************************************************)
\* most triples in a pushed frame
MaxTriples == 3

\* most triples in a frame pushed with a header that does not fit it
MaxBadTriples == 2

\* push is offered while fewer packets than this wait in the queue
MaxQueue == 2

\* triples the pushed frames are made of: CEA-608 field 1 and 2, the
\* writer's two paddings, two packet starts, two continuations
TripleSet ==
    { <<252, 97, 98>>, <<253, 99, 100>>, <<248, 128, 128>>, <<250, 0, 0>>,
      <<255, 2, 33>>, <<255, 67, 33>>, <<254, 65, 0>>, <<254, 16, 0>> }

TripleSeqs(max) == UNION { [1..n -> TripleSet] : n \in 1..max }

FrameOf(hdr, triples) == <<hdr, 255>> \o Concat(triples)

\* frames whose header fits: process_cc_data_flag set, cc_count triples
GoodFrames == { FrameOf(192 + Len(ts), ts) : ts \in TripleSeqs(MaxTriples) }

\* frames the header checks ignore or refuse: too short, flag clear,
\* cc_count 0, cc_count one more or one less than the triples present
BadFrames ==
    { <<>>, <<193, 255>>, <<193, 255, 252, 97>> }
    \cup { FrameOf(128 + Len(ts), ts) : ts \in TripleSeqs(MaxBadTriples) }
    \cup { FrameOf(192, ts) : ts \in TripleSeqs(MaxBadTriples) }
    \cup { FrameOf(192 + Len(ts) + 1, ts) : ts \in TripleSeqs(MaxBadTriples) }
    \cup { FrameOf(192 + Len(ts) - 1, ts) :
             ts \in TripleSeqs(MaxBadTriples) \ TripleSeqs(1) }

Frames == GoodFrames \cup BadFrames

\* the packets of the Ok entries of a reassembly log, in order
RECURSIVE Completed(_)
Completed(log) ==
    IF log = <<>> THEN <<>>
    ELSE (IF log[1].ok THEN <<DTVCCPacketParse(log[1].bytes).v>> ELSE <<>>)
            \o Completed(Tail(log))

(***************************************************************************)
(* Actions of the parser                                                   *)
(***************************************************************************)
Init ==
    /\ parser = ParserNew
    /\ call = NoCall
    /\ ready = <<>>
    /\ writer = WriterNew
    /\ hist = NoHist
    /\ built = NoBuilt

\* the state behind a push of data that gave r
Pushed(data, r) ==
    /\ parser' = r.parser
    /\ call' = [NoCall EXCEPT !.op = "push", !.data = data,
                              !.result = r.result, !.chain = r.chain,
                              !.log = r.log, !.before = parser]
    /\ ready' = ready \o Completed(r.log)

DoPush(data) ==
    /\ call.op = "none"
    /\ Len(parser.packets) < MaxQueue
    /\ Pushed(data, Push(parser, data))
    /\ UNCHANGED <<writer, hist, built>>

DoPopPacket ==
    /\ call.op = "none"
    /\ parser' = PopPacket(parser).parser
    /\ call' = [NoCall EXCEPT !.op = "pop_packet",
                              !.ret = PopPacket(parser).ret,
                              !.oldest = IF ready = <<>> THEN <<>>
                                         ELSE <<Head(ready)>>,
                              !.before = parser]
    /\ ready' = IF ready = <<>> THEN <<>> ELSE Tail(ready)
    /\ UNCHANGED <<writer, hist, built>>

DoHandleCea608 ==
    /\ call.op = "none"
    /\ ~parser.cea608.is_some
    /\ parser' = HandleCea608(parser)
    /\ call' = [NoCall EXCEPT !.op = "handle_cea608", !.before = parser]
    /\ UNCHANGED <<ready, writer, hist, built>>

DoParserFlush ==
    /\ call.op = "none"
    /\ parser # ParserNew
    /\ parser' = ParserFlush(parser)
    /\ call' = [NoCall EXCEPT !.op = "flush", !.before = parser]
    /\ ready' = <<>>
    /\ UNCHANGED <<writer, hist, built>>

\* the call returns; the caller's frame buffer is gone
Return ==
    /\ call.op # "none"
    /\ call' = NoCall
    /\ UNCHANGED <<parser, ready, writer, hist, built>>

Next ==
    \/ \E data \in Frames : DoPush(data)
    \/ DoPopPacket
    \/ DoHandleCea608
    \/ DoParserFlush
    \/ Return

Spec == Init /\ [][Next]_vars

(***************************************************************************)
(* Packets as a caller builds them: Service::new, push_code for each code, *)
(* DTVCCPacket::new, push_service for each service                         *)
(***************************************************************************)
RECURSIVE BuildService(_, _)
BuildService(service, codes) ==
    IF codes = <<>> THEN service
    ELSE BuildService(ServicePushCode(service, Head(codes)).service,
                      Tail(codes))

RECURSIVE BuildPacket(_, _)
BuildPacket(packet, services) ==
    IF services = <<>> THEN packet
    ELSE BuildPacket(DTVCCPacketPushService(packet, Head(services)).packet,
                     Tail(services))

LatinCapitalA == MkCode("Table", <<65>>)

LatinCapitalB == MkCode("Table", <<66>>)

\* Code::Ext1(Ext1::Unknown(vec![0x00]))
Ext1Unknown0 == MkCode("Ext1Unknown", <<0>>)

Repeat(x, n) == [i \in 1..n |-> x]

\* sequence 0, service 1: "A" (2 triples)
PacketA ==
    BuildPacket(DTVCCPacketNew(0),
        <<BuildService(ServiceNew(1), <<LatinCapitalA>>)>>)

\* sequence 1, service 2: "BAB" (3 triples)
PacketBAB ==
    BuildPacket(DTVCCPacketNew(1),
        <<BuildService(ServiceNew(2),
            <<LatinCapitalB, LatinCapitalA, LatinCapitalB>>)>>)

\* codes in the long packet
LongCodes == 20

\* sequence 2, service 1: LongCodes times "A" (11 triples, more than a
\* frame of 60 fps holds)
PacketLong ==
    BuildPacket(DTVCCPacketNew(2),
        <<BuildService(ServiceNew(1), Repeat(LatinCapitalA, LongCodes))>>)

(***************************************************************************)
(* A caller builds a Service with push_code, writes it and parses the      *)
(* bytes                                                                   *)
(***************************************************************************)
\* most push_code calls on one service
MaxPushCode == 3

\* codes ahead of the calls in a service that starts nearly full
NearlyFull == 28

\* the NULL service, the numbers at both ends of the short header and of
\* the extended header
ServiceNumbers == {0, 1, 6, 7, 63}

\* Code::P16(0x4142)
P16Code == MkCode("P16", <<16706>>)

\* Code::Ext1(Ext1::TransparentSpace), the row [0x10, 0x20] of
\* CODE_MAP_TABLE
TransparentSpace == MkCode("Table", <<16, 32>>)

\* codes of 1, 2 and 3 bytes, and an extended code the table does not hold
ServiceCodes == { LatinCapitalA, TransparentSpace, P16Code, Ext1Unknown0 }

\* the services the calls start from: new, and NearlyFull bytes of codes
StartServices ==
    { BuildService(ServiceNew(n), Repeat(LatinCapitalA, k)) :
        n \in ServiceNumbers, k \in {0, NearlyFull} }

InitService ==
    /\ parser = ParserNew
    /\ call = NoCall
    /\ ready = <<>>
    /\ writer = WriterNew
    /\ hist = NoHist
    /\ \E s \in StartServices : built = [NoBuilt EXCEPT !.service = s]

\* the state behind a push_code of code that gave r
PushedCode(code, r) ==
    /\ built' = [built EXCEPT !.service = r.service, !.pushed = @ + 1]
    /\ call' = [NoCall EXCEPT !.op = "push_code", !.arg = code,
                              !.res = r.res, !.over = r.over,
                              !.from = built.service]

DoPushCode(code) ==
    /\ call.op = "none"
    /\ built.pushed < MaxPushCode
    /\ PushedCode(code, ServicePushCode(built.service, code))
    /\ UNCHANGED <<parser, ready, writer, hist>>

DoServiceWrite ==
    /\ call.op = "none"
    /\ call' = [NoCall EXCEPT !.op = "service_write",
                              !.from = built.service,
                              !.out = ServiceWrite(built.service)]
    /\ UNCHANGED <<parser, ready, writer, hist, built>>

\* Service::parse of the bytes just written
DoServiceParse ==
    /\ call.op = "service_write"
    /\ call' = [call EXCEPT !.op = "service_parse",
                            !.ret = ServiceParse(call.out)]
    /\ UNCHANGED <<parser, ready, writer, hist, built>>

NextService ==
    \/ \E code \in ServiceCodes : DoPushCode(code)
    \/ DoServiceWrite
    \/ DoServiceParse
    \/ Return

SpecService == InitService /\ [][NextService]_vars

(***************************************************************************)
(* A caller builds a DTVCCPacket with push_service, writes it and parses   *)
(* the bytes                                                               *)
(***************************************************************************)
\* most push_service calls on one packet
MaxPushService == 5

\* codes in a service block that is full
BlockCodes == 31

\* the services pushed: two without codes (the NULL service among them),
\* a block of 2 bytes, full blocks of 32 and 33 bytes, a block of 31
\* bytes that with three of 32 makes a payload of 127, and a block with an
\* extended code the table does not hold
PacketServices ==
    { ServiceNew(0), ServiceNew(1),
      BuildService(ServiceNew(1), <<LatinCapitalA>>),
      BuildService(ServiceNew(2), Repeat(LatinCapitalA, BlockCodes)),
      BuildService(ServiceNew(7), Repeat(LatinCapitalB, BlockCodes)),
      BuildService(ServiceNew(3), Repeat(LatinCapitalA, BlockCodes - 1)),
      BuildService(ServiceNew(1), <<Ext1Unknown0>>) }

InitPacket ==
    /\ parser = ParserNew
    /\ call = NoCall
    /\ ready = <<>>
    /\ writer = WriterNew
    /\ hist = NoHist
    /\ \E seq_no \in {0, 3} :
          built = [NoBuilt EXCEPT !.packet = DTVCCPacketNew(seq_no)]

\* the state behind a push_service of service that gave r
PushedService(service, r) ==
    /\ built' = [built EXCEPT !.packet = r.packet, !.pushed = @ + 1]
    /\ call' = [NoCall EXCEPT !.op = "push_service", !.arg = service,
                              !.res = r.res, !.over = r.over,
                              !.from = built.packet]

DoPushService(service) ==
    /\ call.op = "none"
    /\ built.pushed < MaxPushService
    /\ PushedService(service, DTVCCPacketPushService(built.packet, service))
    /\ UNCHANGED <<parser, ready, writer, hist>>

DoPacketWrite ==
    /\ call.op = "none"
    /\ call' = [NoCall EXCEPT !.op = "packet_write",
                              !.from = built.packet,
                              !.out = DTVCCPacketWrite(built.packet)]
    /\ UNCHANGED <<parser, ready, writer, hist, built>>

\* DTVCCPacket::parse of the bytes just written
DoPacketParse ==
    /\ call.op = "packet_write"
    /\ call' = [call EXCEPT !.op = "packet_parse",
                            !.ret = DTVCCPacketParse(call.out)]
    /\ UNCHANGED <<parser, ready, writer, hist, built>>

NextPacket ==
    \/ \E service \in PacketServices : DoPushService(service)
    \/ DoPacketWrite
    \/ DoPacketParse
    \/ Return

SpecPacket == InitPacket /\ [][NextPacket]_vars

(***************************************************************************)
(* The writer on its own: pushes, writes and flushes in any order          *)
(***************************************************************************)
\* most packets pushed between two flushes
MaxPushed == 2

\* most byte pairs pushed between two flushes
MaxPairs == 2

WriterPackets == { PacketA, PacketLong }

WriterPairs ==
    { [field |-> "Field1", byte0 |-> 97, byte1 |-> 98],
      [field |-> "Field1", byte0 |-> 99, byte1 |-> 100],
      [field |-> "Field2", byte0 |-> 101, byte1 |-> 102],
      [field |-> "Field2", byte0 |-> 128, byte1 |-> 128] }

\* 60 fps: 1 pair and 10 triples a frame; 30 fps: 2 pairs and 20 triples
WriterFramerates == { <<60, 1>>, <<30, 1>> }

\* the triples of a frame whose control byte is in ctl, payload included
RECURSIVE TriplesWith(_, _, _)
TriplesWith(frame, i, ctl) ==
    IF 3 * i + 5 > Len(frame) THEN <<>>
    ELSE (IF frame[3 * i + 3] \in ctl
          THEN <<SubSeq(frame, 3 * i + 3, 3 * i + 5)>> ELSE <<>>)
            \o TriplesWith(frame, i + 1, ctl)

\* the DTVCC bytes of a frame: its packet-start and packet-data triples
CcpBytesOf(frame) == Concat(TriplesWith(frame, 0, {255, 254}))

\* the byte pairs a frame carries behind control byte ctl, the writer's own
\* filler 0x80 0x80 left out
RECURSIVE PairsFrom(_, _, _)
PairsFrom(frame, i, ctl) ==
    IF 3 * i + 5 > Len(frame) THEN <<>>
    ELSE (IF frame[3 * i + 3] = ctl
             /\ <<frame[3 * i + 4], frame[3 * i + 5]>> # <<128, 128>>
          THEN <<<<frame[3 * i + 4], frame[3 * i + 5]>>>> ELSE <<>>)
            \o PairsFrom(frame, i + 1, ctl)

PairsOf(frame, ctl) == PairsFrom(frame, 0, ctl)

InitWriter == Init

DoSetOutputPadding(on) ==
    /\ call.op = "none"
    /\ writer.output_padding # on
    /\ writer' = SetOutputPadding(writer, on)
    /\ UNCHANGED <<parser, call, ready, hist, built>>

DoSetOutputCea608Padding(on) ==
    /\ call.op = "none"
    /\ writer.output_cea608_padding # on
    /\ writer' = SetOutputCea608Padding(writer, on)
    /\ UNCHANGED <<parser, call, ready, hist, built>>

DoPushPacket(packet) ==
    /\ call.op = "none"
    /\ Len(hist.packets) < MaxPushed
    /\ writer' = PushPacket(writer, packet)
    /\ hist' = [hist EXCEPT !.packets = Append(@, packet)]
    /\ UNCHANGED <<parser, call, ready, built>>

DoPushCea608(cea608) ==
    /\ call.op = "none"
    /\ Len(hist.f1) + Len(hist.f2) < MaxPairs
    /\ writer' = PushCea608(writer, cea608)
    /\ hist' = IF <<cea608.byte0, cea608.byte1>> = <<128, 128>> THEN hist
               ELSE IF cea608.field = "Field1"
               THEN [hist EXCEPT !.f1 = Append(@, <<cea608.byte0, cea608.byte1>>)]
               ELSE [hist EXCEPT !.f2 = Append(@, <<cea608.byte0, cea608.byte1>>)]
    /\ UNCHANGED <<parser, call, ready, built>>

\* the state behind a write at framerate that gave r
Written(framerate, r) ==
    /\ writer' = r.w
    /\ call' = [NoCall EXCEPT !.op = "write", !.framerate = framerate,
                              !.out = r.out, !.was = writer]

DoWrite(framerate) ==
    /\ call.op = "none"
    /\ Written(framerate, Write(writer, framerate))
    /\ hist' = [hist EXCEPT
                  !.sent_ccp = @ + Len(CcpBytesOf(call'.out)),
                  !.sent_1 = @ + Len(PairsOf(call'.out, 252)),
                  !.sent_2 = @ + Len(PairsOf(call'.out, 253))]
    /\ UNCHANGED <<parser, ready, built>>

DoWriterFlush ==
    /\ call.op = "none"
    /\ hist # NoHist
    /\ writer' = WriterFlush(writer)
    /\ hist' = NoHist
    /\ UNCHANGED <<parser, call, ready, built>>

NextWriter ==
    \/ \E on \in BOOLEAN : DoSetOutputPadding(on)
    \/ \E on \in BOOLEAN : DoSetOutputCea608Padding(on)
    \/ \E packet \in WriterPackets : DoPushPacket(packet)
    \/ \E cea608 \in WriterPairs : DoPushCea608(cea608)
    \/ \E framerate \in WriterFramerates : DoWrite(framerate)
    \/ DoWriterFlush
    \/ Return

SpecWriter == InitWriter /\ [][NextWriter]_vars

(***************************************************************************)
(* The writer, push_cea608 and flush noted as calls with the writer they   *)
(* found                                                                   *)
(***************************************************************************)
\* the pairs pushed: one of each field, the filler of each field and a
\* pair with one byte 0x80
CallPairs ==
    { [field |-> "Field1", byte0 |-> 97, byte1 |-> 98],
      [field |-> "Field2", byte0 |-> 101, byte1 |-> 102],
      [field |-> "Field1", byte0 |-> 128, byte1 |-> 128],
      [field |-> "Field2", byte0 |-> 128, byte1 |-> 128],
      [field |-> "Field1", byte0 |-> 128, byte1 |-> 97] }

PairOf(cea608) == <<cea608.byte0, cea608.byte1>>

CallPushCea608(cea608) ==
    /\ call.op = "none"
    /\ Len(hist.f1) + Len(hist.f2) < MaxPairs
    /\ writer' = PushCea608(writer, cea608)
    /\ call' = [NoCall EXCEPT !.op = "push_cea608", !.arg = cea608,
                              !.was = writer]
    /\ hist' = IF PairOf(cea608) = <<128, 128>> THEN hist
               ELSE IF cea608.field = "Field1"
               THEN [hist EXCEPT !.f1 = Append(@, PairOf(cea608))]
               ELSE [hist EXCEPT !.f2 = Append(@, PairOf(cea608))]
    /\ UNCHANGED <<parser, ready, built>>

CallWriterFlush ==
    /\ call.op = "none"
    /\ hist # NoHist
    /\ writer' = WriterFlush(writer)
    /\ call' = [NoCall EXCEPT !.op = "writer_flush", !.was = writer]
    /\ hist' = NoHist
    /\ UNCHANGED <<parser, ready, built>>

NextWriterCalls ==
    \/ \E on \in BOOLEAN : DoSetOutputPadding(on)
    \/ \E on \in BOOLEAN : DoSetOutputCea608Padding(on)
    \/ \E packet \in WriterPackets : DoPushPacket(packet)
    \/ \E cea608 \in CallPairs : CallPushCea608(cea608)
    \/ \E framerate \in WriterFramerates : DoWrite(framerate)
    \/ CallWriterFlush
    \/ Return

SpecWriterCalls == InitWriter /\ [][NextWriterCalls]_vars

(***************************************************************************)
(* The writer, frame after frame: packets and a pair of each field are     *)
(* pushed and frames written, with and without padding                     *)
(***************************************************************************)
FramePairs ==
    { [field |-> "Field1", byte0 |-> 97, byte1 |-> 98],
      [field |-> "Field2", byte0 |-> 101, byte1 |-> 102] }

NextWriterFrames ==
    \/ \E on \in BOOLEAN : DoSetOutputPadding(on)
    \/ \E on \in BOOLEAN : DoSetOutputCea608Padding(on)
    \/ \E packet \in WriterPackets : DoPushPacket(packet)
    \/ \E cea608 \in FramePairs : DoPushCea608(cea608)
    \/ \E framerate \in WriterFramerates : DoWrite(framerate)
    \/ Return

SpecWriterFrames == InitWriter /\ [][NextWriterFrames]_vars

(***************************************************************************)
(* The writer drained: pushes, then write after write at one framerate     *)
(***************************************************************************)
\* framerates of 24 to 60 frames a second: 3, 2 and 1 pairs a frame
DrainRates == { <<24, 1>>, <<30, 1>>, <<60, 1>> }

\* nothing is queued in the writer and nothing is pending
WriterEmpty(w) ==
    /\ w.packets = <<>>
    /\ w.pending_packet_data = <<>>
    /\ w.cea608_1 = <<>>
    /\ w.cea608_2 = <<>>

\* pushes and settings come before the first write
DrainSetOutputPadding(on) == hist.fed = 0 /\ DoSetOutputPadding(on)

DrainSetOutputCea608Padding(on) ==
    hist.fed = 0 /\ DoSetOutputCea608Padding(on)

DrainPushPacket(packet) == hist.fed = 0 /\ DoPushPacket(packet)

DrainPushCea608(cea608) == hist.fed = 0 /\ DoPushCea608(cea608)

\* the state behind a write of the draining caller that gave r;
\* hist.fed counts the first two writes
DrainWritten(framerate, r) ==
    /\ Written(framerate, r)
    /\ hist' = [hist EXCEPT
                  !.sent_ccp = @ + Len(CcpBytesOf(r.out)),
                  !.sent_1 = @ + Len(PairsOf(r.out, 252)),
                  !.sent_2 = @ + Len(PairsOf(r.out, 253)),
                  !.framerate = framerate,
                  !.fed = Min(@ + 1, 2)]
    /\ UNCHANGED <<parser, ready, built>>

\* the caller writes a frame while the writer holds something, always at
\* the framerate of its first write
DrainWrite(framerate) ==
    /\ call.op = "none"
    /\ ~WriterEmpty(writer)
    /\ hist.fed = 0 \/ hist.framerate = framerate
    /\ \E r \in {Write(writer, framerate)} : DrainWritten(framerate, r)

NextDrain ==
    \/ \E on \in BOOLEAN : DrainSetOutputPadding(on)
    \/ \E on \in BOOLEAN : DrainSetOutputCea608Padding(on)
    \/ \E packet \in WriterPackets : DrainPushPacket(packet)
    \/ \E cea608 \in FramePairs : DrainPushCea608(cea608)
    \/ \E framerate \in DrainRates : DrainWrite(framerate)
    \/ Return

\* the caller goes on calling write, and each call returns
SpecDrain ==
    /\ InitWriter
    /\ [][NextDrain]_vars
    /\ WF_vars(\E framerate \in DrainRates : DrainWrite(framerate))
    /\ WF_vars(Return)

(***************************************************************************)
(* Writer to parser: packets are pushed to a writer, each frame it writes  *)
(* is pushed to a parser, the parser is popped                             *)
(***************************************************************************)
\* sequence 3, service 1: one unknown extended code
PacketExt1 ==
    BuildPacket(DTVCCPacketNew(3),
        <<BuildService(ServiceNew(1), <<Ext1Unknown0>>)>>)

\* codes in each of the two services of the full packet
FullCodes == 31

\* sequence 2, services 1 and 2 of FullCodes "A" and FullCodes - 1 "B":
\* 64 bytes, 32 triples
PacketFull ==
    BuildPacket(DTVCCPacketNew(2),
        <<BuildService(ServiceNew(1), Repeat(LatinCapitalA, FullCodes)),
          BuildService(ServiceNew(2), Repeat(LatinCapitalB, FullCodes - 1))>>)

\* most packets pushed to the writer
MaxTripPushed == 3

TripPackets == { PacketA, PacketBAB, PacketExt1, PacketFull }

\* 30 fps: 20 triples a frame; 10 fps: 60 triples a frame
TripFramerates == { <<30, 1>>, <<10, 1>> }

TotalCcCount(packets) ==
    SumSeq([i \in 1..Len(packets) |-> CcCount(packets[i])])

InitTrip ==
    /\ parser = ParserNew
    /\ call = NoCall
    /\ ready = <<>>
    /\ writer = WriterNew
    /\ \E framerate \in TripFramerates :
          hist = [NoHist EXCEPT !.framerate = framerate]
    /\ built = NoBuilt

\* push_packet before the first write, while the packets fit the budget of
\* one frame
TripPushPacket(packet) ==
    /\ call.op = "none"
    /\ hist.fed = 0
    /\ Len(hist.packets) < MaxTripPushed
    /\ TotalCcCount(hist.packets) + CcCount(packet)
            <= MaxCcCount(hist.framerate)
    /\ writer' = PushPacket(writer, packet)
    /\ hist' = [hist EXCEPT !.packets = Append(@, packet)]
    /\ UNCHANGED <<parser, call, ready, built>>

\* write, while the writer holds something to write
TripWrite ==
    /\ call.op = "none"
    /\ writer.packets # <<>> \/ writer.pending_packet_data # <<>>
    /\ Written(hist.framerate, Write(writer, hist.framerate))
    /\ UNCHANGED <<parser, ready, hist, built>>

\* the frame just written is pushed to the parser
TripFeed ==
    /\ call.op = "write"
    /\ Pushed(call.out, Push(parser, call.out))
    /\ hist' = [hist EXCEPT !.fed = @ + 1]
    /\ UNCHANGED <<writer, built>>

\* pop_packet, while the parser has a packet
TripPop ==
    /\ call.op = "none"
    /\ parser.packets # <<>>
    /\ parser' = PopPacket(parser).parser
    /\ hist' = [hist EXCEPT !.got = @ \o PopPacket(parser).ret]
    /\ ready' = Tail(ready)
    /\ UNCHANGED <<writer, call, built>>

NextTrip ==
    \/ \E packet \in TripPackets : TripPushPacket(packet)
    \/ \E on \in BOOLEAN : DoSetOutputPadding(on)
    \/ TripWrite
    \/ TripFeed
    \/ TripPop
    \/ Return

SpecRoundTrip == InitTrip /\ [][NextTrip]_vars

\* all that was pushed has been written, fed and popped
TripDone ==
    /\ call.op = "none"
    /\ hist.fed > 0
    /\ writer.packets = <<>>
    /\ writer.pending_packet_data = <<>>
    /\ parser.packets = <<>>

(***************************************************************************)
(* The writer's output as one stream: pushes and writes in any order, the  *)
(* last CEA-608 triple written so far being noted                          *)
(***************************************************************************)
\* control bytes of CEA-608 triples: field 1 and field 2, valid and filler
Cea608Ctls == {252, 253, 248, 249}

\* the control bytes of the CEA-608 triples of a frame, in order
ControlsOf(frame) ==
    [i \in 1..Len(TriplesWith(frame, 0, Cea608Ctls)) |->
        TriplesWith(frame, 0, Cea608Ctls)[i][1]]

\* the control byte of the last CEA-608 triple of before followed by frame
Last608(before, frame) ==
    IF ControlsOf(frame) = <<>> THEN before
    ELSE ControlsOf(frame)[Len(ControlsOf(frame))]

\* a write whose frame joins the stream: hist.was608 is the last CEA-608
\* control byte written before this frame (0: none), hist.last608 the last
\* one with it
StreamWritten(framerate, r) ==
    /\ Written(framerate, r)
    /\ hist' = [hist EXCEPT
                  !.sent_ccp = @ + Len(CcpBytesOf(r.out)),
                  !.sent_1 = @ + Len(PairsOf(r.out, 252)),
                  !.sent_2 = @ + Len(PairsOf(r.out, 253)),
                  !.was608 = hist.last608,
                  !.last608 = Last608(hist.last608, r.out)]
    /\ UNCHANGED <<parser, ready, built>>

StreamWrite(framerate) ==
    /\ call.op = "none"
    /\ \E r \in {Write(writer, framerate)} : StreamWritten(framerate, r)

\* packets of 2 and 32 triples: the second takes four frames of 60 fps
StreamPackets == { PacketA, PacketFull }

NextStream ==
    \/ \E on \in BOOLEAN : DoSetOutputPadding(on)
    \/ \E on \in BOOLEAN : DoSetOutputCea608Padding(on)
    \/ \E packet \in StreamPackets : DoPushPacket(packet)
    \/ \E cea608 \in FramePairs : DoPushCea608(cea608)
    \/ \E framerate \in WriterFramerates : StreamWrite(framerate)
    \/ Return

SpecStream == InitWriter /\ [][NextStream]_vars

(***************************************************************************)
(* One stream of DTVCC triples pushed to a parser in pieces                *)
(***************************************************************************)
\* most triples in the stream
MaxStream == 5

\* most triples in one piece
MaxPiece == 3

\* valid DTVCC triples: starts of packets of 4, 6 and 2 bytes, data
SplitTriples ==
    { <<255, 2, 33>>, <<255, 67, 33>>, <<255, 129, 0>>,
      <<254, 65, 0>>, <<254, 33, 66>> }

SplitPieces == UNION { [1..n -> SplitTriples] : n \in 1..MaxPiece }

\* the next piece of the stream is pushed as a frame of its own
SplitPush(piece) ==
    /\ call.op = "none"
    /\ Len(hist.stream) + Len(piece) <= MaxStream
    /\ Pushed(FrameOf(192 + Len(piece), piece),
              Push(parser, FrameOf(192 + Len(piece), piece)))
    /\ hist' = [hist EXCEPT !.stream = @ \o piece, !.fed = @ + 1]
    /\ UNCHANGED <<writer, built>>

NextSplit ==
    \/ \E piece \in SplitPieces : SplitPush(piece)
    \/ Return

SpecSplit == Init /\ [][NextSplit]_vars

(***************************************************************************)
(* A Code on its own: written, and the bytes read back by from_data        *)
(***************************************************************************)
\* the bytes the fields of an argument struct are unpacked from
ByteSamples == {0, 63, 64, 165, 255}

\* every array of width bytes drawn from bytes
ByteArrays(width, bytes) == [1..width -> bytes]

\* the command bytes of the codes with an argument struct
StructCommands == {144, 145, 146, 151, 152, 155}

\* the codes of one command with an argument struct, as parse_element
\* makes them of the command byte and the argument bytes, and for
\* SetPenLocation the one of the tests and one with fields a caller sets
StructCodes(b) ==
    { CodeParseElement(<<b>> \o args).v :
          args \in ByteArrays(CodeExpectedSize(<<b>>).v - 1,
                              IF b \in {151, 152, 155} THEN {0, 165}
                              ELSE {0, 165, 255}) }
      \cup IF b = 146
           THEN { MkCode("SetPenLocation", [row |-> 5, column |-> 8]),
                  MkCode("SetPenLocation", [row |-> 20, column |-> 70]) }
           ELSE {}

\* every row of CODE_MAP_TABLE, codes of each other variant with data as
\* parse_element makes them, and Delay
CodeValues ==
    { MkCode("Table", <<b>>) : b \in SingleTableBytes }
      \cup { MkCode("Table", <<16, b>>) : b \in Ext1TableBytes }
      \cup { MkCode("Ext1Unknown", data) :
                 data \in {<<0>>, <<8, 1>>, <<128, 1, 2, 3, 4>>, <<161>>} }
      \cup { MkCode("P16", <<c>>) : c \in {0, 16706, 65535} }
      \cup { MkCode(tag, <<bits>>) :
                 tag \in {"ClearWindows", "DisplayWindows", "HideWindows",
                          "ToggleWindows", "DeleteWindows"},
                 bits \in {0, 5, 255} }
      \cup { MkCode("Delay", <<tenths>>) : tenths \in {0, 10} }
      \cup { MkCode("Unknown", data) :
                 data \in {<<1>>, <<17, 5>>, <<141, 3>>, <<147>>} }

\* Code::write of c, with byte_len of c
DoCodeWrite(c) ==
    /\ call.op = "none"
    /\ call' = [NoCall EXCEPT
                   !.op = "code_write", !.arg = c,
                   !.res = IF CodeIsUnreachable(c) THEN "panic" ELSE "Ok",
                   !.out = CodeWrite(c),
                   !.count = CodeByteLen(c)]
    /\ UNCHANGED <<parser, ready, writer, hist, built>>

\* Code::from_data of the bytes just written
DoCodeFromData ==
    /\ call.op = "code_write"
    /\ call.res = "Ok"
    /\ call' = [call EXCEPT !.op = "code_from_data",
                            !.ret = CodeFromData(call.out)]
    /\ UNCHANGED <<parser, ready, writer, hist, built>>

NextCode ==
    \/ \E c \in CodeValues : DoCodeWrite(c)
    \/ \E b \in StructCommands : \E c \in StructCodes(b) : DoCodeWrite(c)
    \/ DoCodeFromData
    \/ Return

SpecCode == Init /\ [][NextCode]_vars

(***************************************************************************)
(* An argument struct on its own: made of bytes and turned into bytes      *)
(***************************************************************************)
ArgsKinds ==
    {"DefineWindowArgs", "SetWindowAttributesArgs", "SetPenAttributesArgs",
     "SetPenColorArgs", "SetPenLocationArgs"}

\* N of the From<[u8; N]> of each struct
ArgsWidth(kind) ==
    CASE kind = "DefineWindowArgs"        -> 6
      [] kind = "SetWindowAttributesArgs" -> 4
      [] kind = "SetPenAttributesArgs"    -> 2
      [] kind = "SetPenColorArgs"         -> 3
      [] kind = "SetPenLocationArgs"      -> 2

\* From<[u8; N]> of the struct
ArgsFrom(kind, args) ==
    CASE kind = "DefineWindowArgs"        -> DefineWindowArgsFrom(args)
      [] kind = "SetWindowAttributesArgs" -> SetWindowAttributesArgsFrom(args)
      [] kind = "SetPenAttributesArgs"    -> SetPenAttributesArgsFrom(args)
      [] kind = "SetPenColorArgs"         -> SetPenColorArgsFrom(args)
      [] kind = "SetPenLocationArgs"      -> SetPenLocationArgsFrom(args)

\* From<the struct> for [u8; N]
ArgsInto(kind, args) ==
    CASE kind = "DefineWindowArgs"        -> DefineWindowArgsInto(args)
      [] kind = "SetWindowAttributesArgs" -> SetWindowAttributesArgsInto(args)
      [] kind = "SetPenAttributesArgs"    -> SetPenAttributesArgsInto(args)
      [] kind = "SetPenColorArgs"         -> SetPenColorArgsInto(args)
      [] kind = "SetPenLocationArgs"      -> SetPenLocationArgsInto(args)

\* the byte arrays converted: every array over ByteSamples, over three of
\* them for the widest struct
ArgsBytes(kind) ==
    IF ArgsWidth(kind) = 6 THEN ByteArrays(6, {0, 165, 255})
    ELSE ByteArrays(ArgsWidth(kind), ByteSamples)

\* the structs converted: the ones made of bytes, and for DefineWindowArgs
\* the same with the window id parse_element fills in
ArgsStructs(kind) ==
    { ArgsFrom(kind, args) : args \in ArgsBytes(kind) }
      \cup IF kind = "DefineWindowArgs"
           THEN { [DefineWindowArgsFrom(args) EXCEPT !.window_id = 3] :
                      args \in ByteArrays(6, {0, 165}) }
           ELSE {}

\* bytes to struct
DoArgsFrom(kind, args) ==
    /\ call.op = "none"
    /\ call' = [NoCall EXCEPT !.op = "args_from", !.kind = kind,
                              !.data = args, !.ret = ArgsFrom(kind, args)]
    /\ UNCHANGED <<parser, ready, writer, hist, built>>

\* and the struct back to bytes
DoArgsBack ==
    /\ call.op = "args_from"
    /\ call' = [call EXCEPT !.op = "args_back",
                            !.out = ArgsInto(call.kind, call.ret)]
    /\ UNCHANGED <<parser, ready, writer, hist, built>>

\* struct to bytes
DoArgsInto(kind, args) ==
    /\ call.op = "none"
    /\ call' = [NoCall EXCEPT !.op = "args_into", !.kind = kind,
                              !.arg = args, !.out = ArgsInto(kind, args)]
    /\ UNCHANGED <<parser, ready, writer, hist, built>>

\* and the bytes back to a struct
DoStructBack ==
    /\ call.op = "args_into"
    /\ call' = [call EXCEPT !.op = "struct_back",
                            !.ret = ArgsFrom(call.kind, call.out)]
    /\ UNCHANGED <<parser, ready, writer, hist, built>>

NextArgs ==
    \/ \E kind \in ArgsKinds : \E args \in ArgsBytes(kind) :
           DoArgsFrom(kind, args)
    \/ DoArgsBack
    \/ \E kind \in ArgsKinds : \E args \in ArgsStructs(kind) :
           DoArgsInto(kind, args)
    \/ DoStructBack
    \/ Return

SpecArgs == Init /\ [][NextArgs]_vars

(***************************************************************************)
(* Service::parse on bytes of any content                                  *)
(***************************************************************************)
\* most bytes handed to Service::parse
MaxServiceLen == 3

\* service 1 headers of 1 and 2 bytes, extended headers of 1 and 2 bytes,
\* the numbers 3 and 7, a letter, EXT1 and a byte behind it
ServiceByteSet == {33, 34, 225, 226, 3, 7, 65, 16, 32}

ServiceInputs ==
    UNION { ByteArrays(n, ServiceByteSet) : n \in 0..MaxServiceLen }

DoServiceParseBytes(data) ==
    /\ call.op = "none"
    /\ call' = [NoCall EXCEPT !.op = "service_parse_bytes", !.data = data,
                              !.ret = ServiceParse(data)]
    /\ UNCHANGED <<parser, ready, writer, hist, built>>

NextServiceBytes ==
    \/ \E data \in ServiceInputs : DoServiceParseBytes(data)
    \/ Return

SpecServiceBytes == Init /\ [][NextServiceBytes]_vars

(***************************************************************************)
(* DTVCCPacket::parse on bytes of any length                               *)
(***************************************************************************)
\* most bytes handed to DTVCCPacket::parse
MaxParseLen == 4

\* headers advertising 4 and 6 bytes, a service 1 header of one byte, two
\* letters and the null byte
ParseByteSet == {0, 2, 3, 33, 65, 66}

ParseInputs == UNION { ByteArrays(n, ParseByteSet) : n \in 0..MaxParseLen }

DoParsePacket(data) ==
    /\ call.op = "none"
    /\ call' = [NoCall EXCEPT !.op = "packet_parse", !.data = data,
                              !.ret = DTVCCPacketParse(data)]
    /\ UNCHANGED <<parser, ready, writer, hist, built>>

NextParsePacket ==
    \/ \E data \in ParseInputs : DoParsePacket(data)
    \/ Return

SpecParsePacket == Init /\ [][NextParsePacket]_vars

(***************************************************************************)
(* The fuzz target: one buffer is pushed to a new parser that keeps        *)
(* CEA-608 pairs, and when push gives Ok the packets and pairs it holds    *)
(* are pushed to a new writer and one frame is written at 30/1             *)
(***************************************************************************)
\* most triples in the buffer
MaxFuzzTriples == 3

\* a pair of each field, a padding triple, packet starts advertising 6 and
\* 4 bytes with service 1 blocks of 4 and 2 bytes, and continuations: an
\* unknown extended code, SetPenLocation with every bit set, a byte and a
\* letter, the bytes of Delay, and DefineWindow cut short
FuzzTripleSet ==
    { <<252, 97, 98>>, <<253, 99, 100>>, <<250, 0, 0>>,
      <<255, 3, 36>>, <<255, 2, 34>>,
      <<254, 16, 0>>, <<254, 146, 255>>, <<254, 255, 65>>,
      <<254, 141, 10>>, <<254, 152, 255>> }

FuzzBuffers ==
    { <<>>, <<193, 255>>, <<194, 255, 255, 2, 34>>, <<129, 255, 255, 2, 34>> }
      \cup UNION { { FrameOf(192 + n, ts) : ts \in [1..n -> FuzzTripleSet] } :
                       n \in 1..MaxFuzzTriples }

\* an enum field of an argument struct that its From<u8> has no arm for
\* but unreachable!()
ArgsAreUnreachable(c) ==
    CASE c.tag = "DefineWindow" -> c.data.anchor_point \notin 0..15
      [] c.tag = "SetWindowAttributes" ->
            \/ { c.data.justify, c.data.print_direction,
                 c.data.scroll_direction, c.data.display_effect,
                 c.data.effect_direction, c.data.fill_opacity,
                 c.data.fill_color.r, c.data.fill_color.g,
                 c.data.fill_color.b, c.data.border_color.r,
                 c.data.border_color.g, c.data.border_color.b }
                    \ (0..3) # {}
            \/ c.data.border_type \notin 0..7
      [] c.tag = "SetPenAttributes" ->
            \/ {c.data.pen_size, c.data.offset} \ (0..3) # {}
            \/ {c.data.font_style, c.data.edge_type} \ (0..7) # {}
            \/ c.data.text_tag \notin 0..15
      [] c.tag = "SetPenColor" ->
            { c.data.foreground_opacity, c.data.background_opacity,
              c.data.foreground_color.r, c.data.foreground_color.g,
              c.data.foreground_color.b, c.data.background_color.r,
              c.data.background_color.g, c.data.background_color.b,
              c.data.edge_color.r, c.data.edge_color.g,
              c.data.edge_color.b } \ (0..3) # {}
      [] OTHER -> FALSE

\* some code of the packet satisfies Bad(_)
SomeCode(p, Bad(_)) ==
    \E i \in 1..Len(p.services) :
        \E j \in 1..Len(p.services[i].codes) : Bad(p.services[i].codes[j])

\* the packet makes cc_count, hdr_byte or write_as_cc_data panic: a code
\* byte_len or write has no arm for, the debug_assert of hdr_byte, or
\* services that write no byte for written[0]
PacketPanics(p) ==
    \/ SomeCode(p, CodeIsUnreachable)
    \/ DTVCCPacketLen(p) > 128
    \/ p.services # <<>> /\ ServicesWritten(p) = <<>>

\* the packets write looks at: all of them for the budget when no padding
\* is asked for, else the ones it pops, r being what write returns
PacketsTouched(w, r) ==
    IF ~w.output_padding THEN w.packets
    ELSE SubSeq(w.packets, Len(r.w.packets) + 1, Len(w.packets))

\* write panics: the unwrap of the counts of the framerate, a packet that
\* panics, or the assert that three bytes of packet data are left
WritePanicsWith(w, framerate, touched) ==
    \/ framerate[1] = 0
    \/ \E i \in 1..Len(touched) : PacketPanics(touched[i])
    \/ Len(w.pending_packet_data) % 3 # 0
    \/ \E i \in 1..Len(touched) : Len(WriteAsCcData(touched[i])) % 3 # 0

WritePanics(w, framerate) ==
    WritePanicsWith(w, framerate, PacketsTouched(w, Write(w, framerate)))

\* while let Some(packet) = parser.pop_packet() { writer.push_packet(packet) }
RECURSIVE DrainPackets(_, _)
DrainPackets(p, w) ==
    IF PopPacket(p).ret = <<>> THEN w
    ELSE DrainPackets(PopPacket(p).parser, PushPacket(w, PopPacket(p).ret[1]))

\* for pair in cea608 { writer.push_cea608(*pair) }
RECURSIVE PushAllCea608(_, _)
PushAllCea608(w, pairs) ==
    IF pairs = <<>> THEN w
    ELSE PushAllCea608(PushCea608(w, Head(pairs)), Tail(pairs))

\* the state behind the push of the buffer that gave r
FuzzPushed(data, r) ==
    /\ parser' = r.parser
    /\ writer' = WriterNew
    /\ call' = [NoCall EXCEPT !.op = "fuzz_push", !.data = data,
                              !.result = r.result]

FuzzPush(data) ==
    /\ call.op = "none"
    /\ FuzzPushed(data, Push(HandleCea608(ParserNew), data))
    /\ UNCHANGED <<ready, hist, built>>

\* push gave Ok: packets and pairs go to the writer
FuzzDrain ==
    /\ call.op = "fuzz_push"
    /\ call.result.kind = "Ok"
    /\ writer' = PushAllCea608(DrainPackets(parser, WriterNew),
                               Cea608Of(parser).v)
    /\ parser' = [parser EXCEPT !.packets = <<>>]
    /\ call' = [call EXCEPT !.op = "fuzz_drain", !.before = parser]
    /\ UNCHANGED <<ready, hist, built>>

\* the state behind the write that gave r
FuzzWritten(framerate, r) ==
    /\ writer' = r.w
    /\ call' = [call EXCEPT
                   !.op = "fuzz_write", !.was = writer,
                   !.framerate = framerate, !.out = r.out,
                   !.res = IF WritePanics(writer, framerate) THEN "panic"
                           ELSE "Ok"]

FuzzWrite ==
    /\ call.op = "fuzz_drain"
    /\ FuzzWritten(<<30, 1>>, Write(writer, <<30, 1>>))
    /\ UNCHANGED <<parser, ready, hist, built>>

NextFuzz ==
    \/ \E data \in FuzzBuffers : FuzzPush(data)
    \/ FuzzDrain
    \/ FuzzWrite
    \/ Return

SpecFuzz == Init /\ [][NextFuzz]_vars

(***************************************************************************)
(* Framerate on its own: the two counts of a frame at each rate            *)
(***************************************************************************)
\* largest numerator of the whole-number and half rates tried
MaxNumer == 60

\* numer / 1 and numer / 2 frames per second and the three NTSC rates
Framerates ==
    ((1..MaxNumer) \X {1, 2})
        \cup { <<24000, 1001>>, <<30000, 1001>>, <<60000, 1001>> }

InitFramerate ==
    /\ parser = ParserNew
    /\ call = NoCall
    /\ ready = <<>>
    /\ writer = WriterNew
    /\ built = NoBuilt
    /\ \E framerate \in Framerates :
           hist = [NoHist EXCEPT !.framerate = framerate]

DoCea608PairsPerFrame ==
    /\ call.op = "none"
    /\ call' = [NoCall EXCEPT !.op = "cea608_pairs_per_frame",
                              !.framerate = hist.framerate,
                              !.count = Cea608PairsPerFrame(hist.framerate)]
    /\ UNCHANGED <<parser, ready, writer, hist, built>>

DoMaxCcCount ==
    /\ call.op = "none"
    /\ call' = [NoCall EXCEPT !.op = "max_cc_count",
                              !.framerate = hist.framerate,
                              !.count = MaxCcCount(hist.framerate)]
    /\ UNCHANGED <<parser, ready, writer, hist, built>>

NextFramerate ==
    \/ DoCea608PairsPerFrame
    \/ DoMaxCcCount
    \/ Return

SpecFramerate == InitFramerate /\ [][NextFramerate]_vars

(***************************************************************************)
(* The size of a symbol: expected_size and from_data on bytes              *)
(***************************************************************************)
\* most bytes given to from_data
MaxSizeLen == 3

\* lead bytes of each length, 0x10 and the Ext1 bytes of variable length
SizeBytes == {0, 16, 17, 24, 65, 144, 145}

\* every lead byte, every Ext1 byte behind 0x10, and the variable length
\* Ext1 bytes with a byte that tells the length
SizeLeads ==
    { <<b>> : b \in 0..255 }
        \cup { <<16, x>> : x \in 0..255 }
        \cup { <<16, x, y>> : x \in 144..159, y \in {0, 1, 63, 64, 255} }

SizeInputs == UNION { [1..n -> SizeBytes] : n \in 1..MaxSizeLen }

\* Code::expected_size(bytes)
DoExpectedSize(bytes) ==
    /\ call.op = "none"
    /\ call' = [NoCall EXCEPT !.op = "expected_size", !.data = bytes,
                              !.ret = CodeExpectedSize(bytes)]
    /\ UNCHANGED <<parser, ready, writer, hist, built>>

\* Code::from_data(data)
DoFromData(data) ==
    /\ call.op = "none"
    /\ call' = [NoCall EXCEPT !.op = "from_data", !.data = data,
                              !.ret = CodeFromData(data)]
    /\ UNCHANGED <<parser, ready, writer, hist, built>>

NextSize ==
    \/ \E bytes \in SizeLeads : DoExpectedSize(bytes)
    \/ \E data \in SizeInputs : DoFromData(data)
    \/ Return

SpecSize == Init /\ [][NextSize]_vars

(***************************************************************************)
(* What the claims say of a frame, read off the frame itself               *)
(***************************************************************************)
Reverse(s) == [i \in 1..Len(s) |-> s[Len(s) + 1 - i]]

SetMin(S) == CHOOSE x \in S : \A y \in S : x <= y

\* the triples of the triple area are numbered from 0
NumTriples(data) == IF Len(data) < 2 THEN 0 ELSE (Len(data) - 2) \div 3

Control(data, i) == data[3 * i + 3]

IsValid(data, i) == (Control(data, i) \div 4) % 2 = 1

IsDtvccTyped(data, i) == Control(data, i) % 4 \in {2, 3}

IsValid608(data, i) == IsValid(data, i) /\ Control(data, i) % 4 \in {0, 1}

FlagSet(data) == (data[1] \div 64) % 2 = 1

HdrCcCount(data) == data[1] % 32

\* the frame is one push does not ignore
NotIgnored(data) == Len(data) >= 5 /\ FlagSet(data) /\ HdrCcCount(data) # 0

HeaderChecksPass(data) ==
    NotIgnored(data) /\ HdrCcCount(data) * 3 + 2 = Len(data)

\* valid CEA-608 triples that come after some DTVCC-typed triple
Offending(data) ==
    { j \in 0..(NumTriples(data) - 1) :
        IsValid608(data, j) /\ \E i \in 0..(j - 1) : IsDtvccTyped(data, i) }

\* the valid CEA-608 pairs before the first DTVCC-typed triple, from triple i
RECURSIVE Pairs608Before(_, _)
Pairs608Before(data, i) ==
    IF i >= NumTriples(data) \/ IsDtvccTyped(data, i) THEN <<>>
    ELSE (IF IsValid608(data, i)
          THEN <<[field |-> IF Control(data, i) % 4 = 0 THEN "Field1"
                            ELSE "Field2",
                  byte0 |-> data[3 * i + 4], byte1 |-> data[3 * i + 5]]>>
          ELSE <<>>) \o Pairs608Before(data, i + 1)

\* the reassembly state the claims call in-flight, with the ready queue
Core(p) ==
    <<p.packets, p.pending_data, p.ccp_bytes_needed,
      p.have_initial_ccp_header>>

IsPushError(kind) == kind \in {"LengthMismatch", "Cea608AfterCea708"}

\* the packets a push added to the queue, oldest first
NewPackets ==
    Reverse(Take(parser.packets,
                 Len(parser.packets) - Len(call.before.packets)))

(***************************************************************************)
(* Claims on the parser                                                    *)
(***************************************************************************)
\* C2: pop_packet returns the packets in the order they completed (the
\* oldest completed and not yet popped), and None exactly when none waits.
C2_PopPacketIsFifo ==
    /\ call.op = "pop_packet" => call.ret = call.oldest
    /\ Len(ready) = Len(parser.packets)

\* C2 witness: a pop returned a packet while a different, younger one waits
C2_Witness ==
    /\ call.op = "pop_packet"
    /\ call.ret # <<>>
    /\ ready # <<>>
    /\ ready[1] # call.ret[1]

C5_Cea608AfterCea708 ==
    (call.op = "push" /\ HeaderChecksPass(call.data)
        /\ Offending(call.data) # {})
    => /\ call.result.kind = "Cea608AfterCea708"
       /\ call.result.byte_pos = 3 * SetMin(Offending(call.data))

\* C5 witness: the third triple offends, byte_pos is 6
C5_Witness ==
    /\ call.op = "push"
    /\ HeaderChecksPass(call.data)
    /\ Offending(call.data) # {}
    /\ SetMin(Offending(call.data)) = 2
    /\ call.result.byte_pos = 6

\* C6: a push that fails leaves the queue of completed packets, the pending
\* payload, the bytes needed and the header-seen flag as they were.
C6_FailedPushKeepsState ==
    (call.op = "push" /\ IsPushError(call.result.kind))
    => Core(parser) = Core(call.before)

\* C6 witness: a push failed while payload was pending and a packet waited
C6_Witness ==
    /\ call.op = "push"
    /\ call.result.kind = "Cea608AfterCea708"
    /\ call.before.pending_data # <<>>
    /\ call.before.packets # <<>>

\* C7 as claimed: after every push cea608() is the valid CEA-608 pairs of
\* the frame before its first DTVCC-typed triple
C7_Original ==
    (call.op = "push" /\ parser.cea608.is_some)
    => Cea608Of(parser).v = Pairs608Before(call.data, 0)

\* C7 amended: with tracking on, after a push of a frame that passes the
\* header checks (accepted or failed with Cea608AfterCea708) cea608() is
\* the valid CEA-608 pairs of that frame before its first DTVCC-typed
\* triple, in frame order with the field tag; after a push that is ignored
\* or fails with LengthMismatch it is empty; never a pair of an earlier
\* frame.
C7_Cea608OfLastPush ==
    (call.op = "push" /\ parser.cea608.is_some)
    => Cea608Of(parser).v =
          IF HeaderChecksPass(call.data) THEN Pairs608Before(call.data, 0)
          ELSE <<>>

\* C7 witness: the frame before left pairs, this frame has its own pairs
\* and then fails
C7_Witness ==
    /\ call.op = "push"
    /\ parser.cea608.is_some
    /\ call.before.cea608.v # <<>>
    /\ Cea608Of(parser).v # <<>>
    /\ Cea608Of(parser).v # call.before.cea608.v
    /\ call.result.kind = "Cea608AfterCea708"

\* C10: push fails only with LengthMismatch (a frame not ignored whose
\* length does not fit) or Cea608AfterCea708 (a valid CEA-608 triple after
\* a DTVCC-typed one); whatever the DTVCC payload, it returns Ok otherwise.
C10_OnlyHeaderAndInterleaveErrors ==
    call.op = "push" =>
        call.result.kind =
            IF NotIgnored(call.data) /\ ~HeaderChecksPass(call.data)
            THEN "LengthMismatch"
            ELSE IF HeaderChecksPass(call.data) /\ Offending(call.data) # {}
            THEN "Cea608AfterCea708"
            ELSE "Ok"

\* C10 witness: a buffered packet whose only code is cut short was dropped
\* and push returned Ok
C10_Witness ==
    /\ call.op = "push"
    /\ call.result.kind = "Ok"
    /\ \E k \in 1..Len(call.log) :
          /\ call.log[k].bytes = <<2, 33, 16, 0>>
          /\ ~DTVCCPacketParse(call.log[k].bytes).ok
    /\ NewPackets = <<>>

(***************************************************************************)
(* The CCP-start truncation rule, read off the chained triples             *)
(***************************************************************************)
ChainTriples(chain) == Len(chain) \div 3

ChainValid(chain, k) == (chain[3 * k + 1] \div 4) % 2 = 1

\* triple k of the chain is a valid DTVCC-start triple
IsStart(chain, k) == ChainValid(chain, k) /\ chain[3 * k + 1] % 4 = 3

Starts(chain) == { k \in 0..(ChainTriples(chain) - 1) : IsStart(chain, k) }

\* the packet size the header byte of start triple s advertises
Advertised(chain, s) == ParseHdrByte(chain[3 * s + 2])[2] + 1

\* the triple after the packet begun at s: the next start or the chain's end
SegmentEnd(chain, s) ==
    IF \E k \in Starts(chain) : k > s
    THEN SetMin({ k \in Starts(chain) : k > s })
    ELSE ChainTriples(chain)

\* the payload bytes of the valid triples k..e-1, cut at need bytes
RECURSIVE SegBytes(_, _, _, _)
SegBytes(chain, k, e, need) ==
    IF k >= e \/ need = 0 THEN <<>>
    ELSE IF ~ChainValid(chain, k) THEN SegBytes(chain, k + 1, e, need)
    ELSE Take(<<chain[3 * k + 2], chain[3 * k + 3]>>, Min(2, need))
            \o SegBytes(chain, k + 1, e, need - Min(2, need))

\* the bytes held for the packet begun at s when the next start arrives
Held(chain, s) ==
    SegBytes(chain, s, SegmentEnd(chain, s), Advertised(chain, s))

IsLastStart(chain, s) == \A k \in Starts(chain) : k <= s

\* what the rule lets out for the starts from triple k on: a packet cut by
\* a later start goes out iff what is held of it parses; the last one goes
\* out iff it is whole and parses
RECURSIVE RuleEmits(_, _)
RuleEmits(chain, k) ==
    IF k >= ChainTriples(chain) THEN <<>>
    ELSE IF ~IsStart(chain, k) THEN RuleEmits(chain, k + 1)
    ELSE LET held == Held(chain, k)
             parsed == DTVCCPacketParse(held)
             out == IF IsLastStart(chain, k)
                    THEN Len(held) = Advertised(chain, k) /\ parsed.ok
                    ELSE parsed.ok
         IN (IF out THEN <<parsed.v>> ELSE <<>>) \o RuleEmits(chain, k + 1)

\* what the rule leaves pending: the last packet begun, unless it is whole
RulePending(chain) ==
    IF Starts(chain) = {} THEN <<>>
    ELSE LET s == CHOOSE k \in Starts(chain) : IsLastStart(chain, k)
             held == Held(chain, s)
         IN IF Len(held) = Advertised(chain, s) THEN <<>> ELSE held

\* C9: when a valid DTVCC-start triple arrives while payload of a packet
\* begun before is held, that packet is emitted, before the new one, iff
\* the bytes held parse as a packet; otherwise it is dropped, push returns
\* Ok, and no byte of it is in a later packet or in the pending payload.
C9_StartTruncatesPrevious ==
    (call.op = "push" /\ call.chain # <<>>)
    => /\ call.result.kind = "Ok"
       /\ NewPackets = RuleEmits(call.chain, 0)
       /\ parser.pending_data = RulePending(call.chain)
       /\ Drop(parser.packets, Len(NewPackets)) = call.before.packets

\* C9 witness: payload carried over from the frame before was cut by a
\* start triple and emitted; the packet that start began was cut by one
\* more start and dropped
C9_Witness ==
    /\ call.op = "push"
    /\ call.before.pending_data # <<>>
    /\ \E j, k \in 1..Len(call.log) :
          /\ j < k
          /\ call.log[j].at = "header" /\ call.log[k].at = "header"
          /\ call.log[j].bytes = call.before.pending_data
          /\ call.log[j].ok
          /\ NewPackets # <<>>
          /\ NewPackets[1] = DTVCCPacketParse(call.before.pending_data).v
          /\ call.log[k].bytes # <<>>
          /\ ~call.log[k].ok

\* frames of packet-data triples alone, no packet start among them
ContinuationFrames ==
    { FrameOf(192 + Len(ts), ts) :
        ts \in UNION { [1..n -> { <<254, 65, 0>>, <<254, 16, 0>> }] :
                         n \in 1..MaxTriples } }

\* C16: after CCDataParser::flush the parser is as CCDataParser::new()
\* makes it: pop_packet gives None, CEA-608 tracking is off, and frames of
\* packet-data triples alone complete no packet and leave nothing pending,
\* whatever payload was pending before the flush.
C16_ParserFlushIsNew ==
    call.op = "flush" =>
        /\ parser = ParserNew
        /\ PopPacket(parser).ret = <<>>
        /\ ~Cea608Of(parser).is_some
        /\ \A data \in ContinuationFrames :
              /\ Push(parser, data).parser.packets = <<>>
              /\ Push(parser, data).parser.pending_data = <<>>
              /\ ~Push(parser, data).parser.cea608.is_some

\* C16 witness: flush of a parser with payload pending that a packet-data
\* triple would have completed, a packet waiting and CEA-608 tracking on
C16_Witness ==
    /\ call.op = "flush"
    /\ call.before.pending_data # <<>>
    /\ call.before.ccp_bytes_needed \in 1..2
    /\ call.before.packets # <<>>
    /\ call.before.cea608.is_some
    /\ parser = ParserNew

(***************************************************************************)
(* Claims on the writer                                                    *)
(***************************************************************************)
\* the bytes the packets pushed make as cc_data, in the order pushed
CcpBytesPushed ==
    Concat([i \in 1..Len(hist.packets) |-> WriteAsCcData(hist.packets[i])])

Slice(s, from, n) == SubSeq(s, from + 1, from + n)

\* C3: whatever the order of push_packet, push_cea608 and write, each frame
\* written carries the next DTVCC bytes of the packets in the order they
\* were pushed, and for each CEA-608 field the next byte pairs in the order
\* they were pushed; nothing is skipped and nothing comes twice.
C3_WriterIsFifo ==
    call.op = "write" =>
        LET ccp == CcpBytesOf(call.out)
            p1 == PairsOf(call.out, 252)
            p2 == PairsOf(call.out, 253)
        IN /\ hist.sent_ccp <= Len(CcpBytesPushed)
           /\ ccp = Slice(CcpBytesPushed, hist.sent_ccp - Len(ccp), Len(ccp))
           /\ hist.sent_1 <= Len(hist.f1)
           /\ p1 = Slice(hist.f1, hist.sent_1 - Len(p1), Len(p1))
           /\ hist.sent_2 <= Len(hist.f2)
           /\ p2 = Slice(hist.f2, hist.sent_2 - Len(p2), Len(p2))

\* C3 witness: a frame ends one packet and begins the next, a different
\* one; a pair of field 1 pushed second goes out after the first went out
\* in a frame before
C3_Witness ==
    /\ call.op = "write"
    /\ Len(hist.packets) = 2
    /\ hist.packets[1] # hist.packets[2]
    /\ hist.sent_ccp - Len(CcpBytesOf(call.out))
            < Len(WriteAsCcData(hist.packets[1]))
    /\ hist.sent_ccp > Len(WriteAsCcData(hist.packets[1]))
    /\ Len(hist.f1) = 2
    /\ hist.f1[1] # hist.f1[2]
    /\ hist.sent_1 = 2
    /\ PairsOf(call.out, 252) = <<hist.f1[2]>>

\* the DTVCC bytes the writer still holds, in the order it will write them
CcpBytesHeld(w) ==
    w.pending_packet_data
        \o Concat([i \in 1..Len(w.packets) |->
                      WriteAsCcData(w.packets[Len(w.packets) + 1 - i])])

\* the number of CEA-608 triples of a frame, fillers included
Num608Triples(frame) == Len(TriplesWith(frame, 0, {252, 253, 248, 249}))

\* C11: with both padding flags off and a framerate whose max_cc_count is
\* at most 31, every frame written holds exactly the number of triples its
\* header byte gives as cc_count: its length is 2 + 3 * cc_count.
C11_HeaderCountsTriples ==
    ( /\ call.op = "write"
      /\ ~call.was.output_padding
      /\ ~call.was.output_cea608_padding
      /\ MaxCcCount(call.framerate) <= 31 )
        => Len(call.out) = 2 + 3 * HdrCcCount(call.out)

\* C12: every frame written holds at most max_cc_count triples and at most
\* cea608_pairs_per_frame CEA-608 triples of its framerate, and the DTVCC
\* bytes that did not fit are all still held, in order, for later frames.
C12_FrameWithinCapacity ==
    call.op = "write" =>
        /\ NumTriples(call.out) <= MaxCcCount(call.framerate)
        /\ Num608Triples(call.out) <= Cea608PairsPerFrame(call.framerate)
        /\ CcpBytesHeld(writer)
                = Drop(CcpBytesPushed, hist.sent_ccp)

\* C12 witness: a frame is full to max_cc_count, holds as many CEA-608
\* triples as the framerate allows, and part of a packet is carried over
C12_Witness ==
    /\ call.op = "write"
    /\ NumTriples(call.out) = MaxCcCount(call.framerate)
    /\ Num608Triples(call.out) = Cea608PairsPerFrame(call.framerate)
    /\ writer.pending_packet_data # <<>>
    /\ CcpBytesOf(call.out) # <<>>

\* C13 as stated: in every frame written, each valid field 2 triple (0xFD)
\* has a valid field 1 triple (0xFC) before it in that frame.
C13_Original ==
    call.op = "write" =>
        \A i \in 0..(NumTriples(call.out) - 1) :
            Control(call.out, i) = 253
                => \E j \in 0..(i - 1) : Control(call.out, j) = 252

\* C13: in every frame written, a valid field 2 triple (0xFD) either comes
\* right after a valid field 1 triple (0xFC) of that frame, or is the first
\* triple of the frame and the last CEA-608 slot of the writes before was a
\* field 1 slot.
C13_Field2FollowsField1Slot ==
    call.op = "write" =>
        \A i \in 0..(NumTriples(call.out) - 1) :
            Control(call.out, i) = 253
                => \/ i > 0 /\ Control(call.out, i - 1) = 252
                   \/ i = 0 /\ call.was.last_cea608_was_field1

\* C13 witness: a frame that starts with a field 2 pair, the frame before
\* having ended on field 1
C13_Witness ==
    /\ call.op = "write"
    /\ NumTriples(call.out) > 0
    /\ Control(call.out, 0) = 253
    /\ call.was.last_cea608_was_field1

\* the pairs of a queue of the writer, the first pushed first
OldestFirst(q) == Reverse(q)

\* C14: push_cea608 of Field1(0x80,0x80) or Field2(0x80,0x80) leaves the
\* writer as it was: both queues, the buffered durations and the frame a
\* write would give are the same; any other pair goes to the end of the
\* queue of its field and nothing else changes.
C14_FillerPairIsNotQueued ==
    call.op = "push_cea608" =>
        IF PairOf(call.arg) = <<128, 128>>
        THEN /\ writer = call.was
             /\ BufferedCea608Field1Duration(writer)
                    = BufferedCea608Field1Duration(call.was)
             /\ BufferedCea608Field2Duration(writer)
                    = BufferedCea608Field2Duration(call.was)
             /\ BufferedPacketDuration(writer)
                    = BufferedPacketDuration(call.was)
             /\ \A framerate \in WriterFramerates :
                    Write(writer, framerate) = Write(call.was, framerate)
        ELSE IF call.arg.field = "Field1"
        THEN /\ OldestFirst(writer.cea608_1)
                    = Append(OldestFirst(call.was.cea608_1), PairOf(call.arg))
             /\ writer = [call.was EXCEPT !.cea608_1 = writer.cea608_1]
        ELSE /\ OldestFirst(writer.cea608_2)
                    = Append(OldestFirst(call.was.cea608_2), PairOf(call.arg))
             /\ writer = [call.was EXCEPT !.cea608_2 = writer.cea608_2]

\* C14 witness: the filler of field 2 was pushed to a writer that holds a
\* pair of field 2 and a packet
C14_Witness ==
    /\ call.op = "push_cea608"
    /\ call.arg = [field |-> "Field2", byte0 |-> 128, byte1 |-> 128]
    /\ call.was.cea608_2 # <<>>
    /\ call.was.packets # <<>>
    /\ writer = call.was

\* C15: after CCDataWriter::flush the packet queue, the pending bytes of a
\* packet partly written and both CEA-608 queues are empty, the three
\* buffered durations are zero, the two padding settings are as they were,
\* and with both paddings off the next write gives the header alone, with
\* cc_count 0.
C15_WriterFlushEmpties ==
    call.op = "writer_flush" =>
        /\ writer.packets = <<>>
        /\ writer.pending_packet_data = <<>>
        /\ writer.cea608_1 = <<>>
        /\ writer.cea608_2 = <<>>
        /\ BufferedCea608Field1Duration(writer) = 0
        /\ BufferedCea608Field2Duration(writer) = 0
        /\ BufferedPacketDuration(writer) = 0
        /\ writer.output_padding = call.was.output_padding
        /\ writer.output_cea608_padding = call.was.output_cea608_padding
        /\ (~writer.output_padding /\ ~writer.output_cea608_padding)
              => \A framerate \in WriterFramerates :
                    Write(writer, framerate).out = <<192, 255>>

\* C15 witness: flush of a writer with a packet partly written, a packet
\* queued, a pair queued and CCP padding on
C15_Witness ==
    /\ call.op = "writer_flush"
    /\ call.was.pending_packet_data # <<>>
    /\ call.was.packets # <<>>
    /\ call.was.cea608_1 # <<>>
    /\ call.was.output_padding
    /\ writer.output_padding

(***************************************************************************)
(* Claims on services and packets                                          *)
(***************************************************************************)
\* C17: push_code on a service numbered 1..=63 succeeds exactly when
\* codes_len + code.byte_len() <= 31 and then appends the code; otherwise
\* it fails with WouldOverflow(n), n the bytes over 31, and the service is
\* as it was.  So codes_len() <= 31 and free_space() = 31 - codes_len()
\* after any calls of push_code.
C17_PushCodeFitsOrOverflows ==
    /\ (call.op = "push_code" /\ call.from.number \in 1..63) =>
          IF ServiceCodesLen(call.from) + CodeByteLen(call.arg) <= 31
          THEN /\ call.res = "Ok"
               /\ built.service
                    = [call.from EXCEPT !.codes = Append(@, call.arg)]
          ELSE /\ call.res = "WouldOverflow"
               /\ call.over = ServiceCodesLen(call.from)
                                + CodeByteLen(call.arg) - 31
               /\ built.service = call.from
    /\ ServiceCodesLen(built.service) \in 0..31
    /\ ServiceFreeSpace(built.service)
            = 31 - ServiceCodesLen(built.service)

\* C17 witness: a code of 3 bytes pushed to service 7 holding 30 bytes is
\* refused as 2 bytes over, after a code that filled it to 30 went in
C17_Witness ==
    /\ call.op = "push_code"
    /\ call.from.number = 7
    /\ ServiceCodesLen(call.from) = 30
    /\ call.arg = P16Code
    /\ call.res = "WouldOverflow"
    /\ call.over = 2
    /\ built.service = call.from

\* the bytes of the service blocks of a packet, the header byte left out
Payload(p) ==
    SumSeq([i \in 1..Len(p.services) |-> ServiceLen(p.services[i])])

\* C18: push_service fails with EmptyService for a service without codes
\* and with WouldOverflow(n) when the service would take the payload past
\* 127 bytes, n the bytes over, the packet being as it was in both cases;
\* otherwise it appends the service.  So the payload is at most 127 bytes,
\* len() at most 128, and every service of a packet has a code.
C18_PushServiceFitsOrFails ==
    /\ call.op = "push_service" =>
          IF ServiceIsEmpty(call.arg)
          THEN call.res = "EmptyService" /\ built.packet = call.from
          ELSE IF Payload(call.from) + ServiceLen(call.arg) > 127
          THEN /\ call.res = "WouldOverflow"
               /\ call.over
                    = Payload(call.from) + ServiceLen(call.arg) - 127
               /\ built.packet = call.from
          ELSE /\ call.res = "Ok"
               /\ built.packet
                    = [call.from EXCEPT !.services = Append(@, call.arg)]
    /\ Payload(built.packet) <= 127
    /\ DTVCCPacketLen(built.packet) <= 128
    /\ \A i \in 1..Len(built.packet.services) :
          built.packet.services[i].codes # <<>>

\* C18 witness: a full block pushed to a packet with a payload of 96 bytes
\* is refused as 1 byte over, and the packet keeps its three services
C18_Witness ==
    /\ call.op = "push_service"
    /\ Payload(call.from) = 96
    /\ ServiceLen(call.arg) = 32
    /\ call.res = "WouldOverflow"
    /\ call.over = 1
    /\ built.packet = call.from
    /\ Len(built.packet.services) = 3

\* C20: for a packet with sequence number 0..=3 and services that are not
\* empty and fit 127 bytes of payload, DTVCCPacket::parse of the bytes
\* DTVCCPacket::write gives returns the packet; write ends with one 0x00
\* pad byte exactly when len() is odd; a payload of 127 bytes is written
\* with packet_size_code 0 and comes back too.
C20_PacketRoundTrip ==
    ( /\ call.op = "packet_parse"
      /\ call.from.seq_no \in 0..3
      /\ call.from.services # <<>>
      /\ Payload(call.from) <= 127 )
        => /\ call.ret.ok
           /\ call.ret.v = call.from
           /\ Len(call.out)
                = DTVCCPacketLen(call.from) + (DTVCCPacketLen(call.from) % 2)
           /\ DTVCCPacketLen(call.from) % 2 = 1
                => call.out[Len(call.out)] = 0
           /\ Payload(call.from) = 127 => call.out[1] % 64 = 0

\* C19: for a service numbered 1..=63 with a code list that is not empty
\* and at most 31 bytes, Service::parse of the bytes Service::write gives
\* returns a service with the same number and the same codes; the header
\* is 1 byte for the numbers up to 6 and 2 bytes, with 7 in the number
\* bits, from 7 on.
C19_ServiceRoundTrip ==
    ( /\ call.op = "service_parse"
      /\ call.from.number \in 1..63
      /\ call.from.codes # <<>>
      /\ ServiceCodesLen(call.from) <= 31 )
        => /\ call.ret.ok
           /\ call.ret.v.number = call.from.number
           /\ call.ret.v.codes = call.from.codes
           /\ call.out[1] \div 32
                = (IF call.from.number >= 7 THEN 7 ELSE call.from.number)
           /\ call.from.number >= 7 => call.out[2] = call.from.number

(***************************************************************************)
(* Claims on writer and parser together                                    *)
(***************************************************************************)
\* C1: packets built through push_code and push_service whose total
\* cc_count fits the budget of the framerate, pushed to a writer, written
\* frame by frame and pushed to a parser, come out of pop_packet equal to
\* the packets pushed, in the same order, none lost and none twice.
C1_RoundTrip == TripDone => hist.got = hist.packets

(***************************************************************************)
(* Claims on frame boundaries                                              *)
(***************************************************************************)
\* the stream pushed as one frame to a new parser
WholePush == Push(ParserNew, FrameOf(192 + Len(hist.stream), hist.stream))

\* C8: a stream of valid DTVCC triples pushed in consecutive frames, cut at
\* any triple boundaries, makes the parser emit the packets, in the order,
\* that the stream pushed as a single frame makes it emit, and leaves the
\* same payload pending.
C8_FrameBoundariesDoNotMatter ==
    hist.stream # <<>> =>
        /\ parser.packets = WholePush.parser.packets
        /\ parser.pending_data = WholePush.parser.pending_data
        /\ parser.ccp_bytes_needed = WholePush.parser.ccp_bytes_needed

\* C8 witness: the stream went in as three frames, the last one found
\* payload pending, and two packets are out
C8_Witness ==
    /\ call.op = "push"
    /\ hist.fed = 3
    /\ call.before.pending_data # <<>>
    /\ Len(parser.packets) = 2
    /\ parser.packets = WholePush.parser.packets

(***************************************************************************)
(* Claims on the framerate                                                 *)
(***************************************************************************)
\* r is a * b / c rounded to the nearest whole number
IsNearest(r, a, b, c) ==
    /\ 2 * r * c - c <= 2 * a * b
    /\ 2 * a * b <= 2 * r * c + c

\* C21: at the framerate numer / denom cea608_pairs_per_frame is
\* 60 * denom / numer and max_cc_count is 600 * denom / numer, each rounded
\* to the nearest whole number: 1 and 10 at 60/1, 2 and 20 at 30/1
C21_CountsAreRounded ==
    /\ call.op = "cea608_pairs_per_frame" =>
           /\ IsNearest(call.count, 60, call.framerate[2], call.framerate[1])
           /\ call.framerate = <<60, 1>> => call.count = 1
           /\ call.framerate = <<30, 1>> => call.count = 2
    /\ call.op = "max_cc_count" =>
           /\ IsNearest(call.count, 600, call.framerate[2], call.framerate[1])
           /\ call.framerate = <<60, 1>> => call.count = 10
           /\ call.framerate = <<30, 1>> => call.count = 20

\* max_cc_count at a rate where the quotient is not whole: 600 * 1001 / 24000
C21_Witness ==
    /\ call.op = "max_cc_count"
    /\ call.framerate = <<24000, 1001>>
    /\ call.count = 25

(***************************************************************************)
(* Claims on codes and argument structs                                    *)
(***************************************************************************)
\* C22: for every Code c, Code::write succeeds, emits exactly c.byte_len()
\* bytes, and Code::from_data of those bytes returns [c]
C22_CodeRoundTrip ==
    /\ call.op = "code_write" =>
           /\ call.res = "Ok"
           /\ Len(call.out) = call.count
    /\ call.op = "code_from_data" => call.ret = Ok(<<call.arg>>)

\* C23: every byte array of the width of an argument struct converted to
\* the struct and back gives the same bytes, and every struct converted to
\* bytes and back gives the same struct
C23_ArgsAreBijections ==
    /\ call.op = "args_back" => call.out = call.data
    /\ call.op = "struct_back" => call.ret = call.arg

\* C24: DTVCCPacket::parse returns LengthMismatch whenever the data is
\* shorter than the length advertised in the packet header byte
C24_ShortDataIsLengthMismatch ==
    (/\ call.op = "packet_parse"
     /\ call.data # <<>>
     /\ Len(call.data) < ParseHdrByte(call.data[1])[2] + 1)
    => ~call.ret.ok

(***************************************************************************)
(* Claims on the fuzz target                                               *)
(***************************************************************************)
\* C25: push returns Ok or Err without panicking for every buffer (no
\* unreachable!() of push or of the packet, service and code parsers is
\* reached), and every packet and CEA-608 pair the parser then yields can
\* be pushed to a writer and written at 30/1 without panicking
C25_FuzzNeverPanics ==
    /\ call.op = "fuzz_push" =>
           /\ call.result.kind \in {"Ok", "LengthMismatch", "Cea608AfterCea708"}
           /\ \A i \in 1..Len(parser.packets) :
                  ~SomeCode(parser.packets[i], ArgsAreUnreachable)
    /\ call.op = "fuzz_write" => call.res = "Ok"

\* a buffer with a pair and a packet holding an unknown extended code
\* was pushed, and the pair and the packet were written
C25_Witness ==
    /\ call.op = "fuzz_write"
    /\ call.was.cea608_1 # <<>>
    /\ \E i \in 1..Len(call.was.packets) :
           SomeCode(call.was.packets[i], LAMBDA c : c.tag = "Ext1Unknown")
    /\ Len(call.out) = 2 + 3 * 3

(***************************************************************************)
(* Claims on the frames the writer makes                                   *)
(***************************************************************************)
\* the numbers of the triples of a frame whose control byte is in ctl
TriplesAt(frame, ctl) ==
    { i \in 0..(NumTriples(frame) - 1) : Control(frame, i) \in ctl }

\* the numbers of the triples of a frame that are [0xFA, 0x00, 0x00]
PaddingAt(frame) ==
    { i \in 0..(NumTriples(frame) - 1) :
        SubSeq(frame, 3 * i + 3, 3 * i + 5) = <<250, 0, 0>> }

\* every triple numbered in first comes before every one in second
AllBefore(first, second) == \A i \in first : \A j \in second : i < j

\* C26: with output_padding enabled every frame write makes holds exactly
\* max_cc_count triples: the CEA-608 slots, then the queued packet triples,
\* then [0xFA, 0x00, 0x00] in every slot left, and no padding triple is
\* written while packet bytes remain queued
C26_PaddingFillsTheFrame ==
    (call.op = "write" /\ call.was.output_padding) =>
        /\ NumTriples(call.out) = MaxCcCount(call.framerate)
        /\ Len(call.out) = 2 + 3 * NumTriples(call.out)
        /\ TriplesAt(call.out, {248, 249, 252, 253})
             \cup TriplesAt(call.out, {254, 255}) \cup PaddingAt(call.out)
               = 0..(NumTriples(call.out) - 1)
        /\ AllBefore(TriplesAt(call.out, {248, 249, 252, 253}),
                     TriplesAt(call.out, {254, 255}) \cup PaddingAt(call.out))
        /\ AllBefore(TriplesAt(call.out, {254, 255}), PaddingAt(call.out))
        /\ PaddingAt(call.out) # {} => BufferedPacketBytes(writer) = 0

\* a frame with a pair, the triples of a packet and padding behind them
C26_Witness ==
    /\ call.op = "write"
    /\ call.was.output_padding
    /\ call.was.packets # <<>>
    /\ TriplesAt(call.out, {252}) # {}
    /\ TriplesAt(call.out, {255}) # {}
    /\ PaddingAt(call.out) # {}

\* the packets a write took from the queue, oldest first
PoppedBy(was, now) ==
    [i \in 1..(Len(was.packets) - Len(now.packets)) |->
        was.packets[Len(was.packets) + 1 - i]]

\* the two bytes each triple of bytes carries behind its control byte
PayloadOf(bytes) ==
    Concat([i \in 1..(Len(bytes) \div 3) |->
               <<bytes[3 * i - 1], bytes[3 * i]>>])

\* bytes is packet p as triples: one start triple, then continuation
\* triples, carrying the header byte and the service bytes of p, the last
\* triple padded with 0x00 when a byte is missing
IsOnePacket(bytes, p) ==
    /\ Len(bytes) >= 3
    /\ Len(bytes) % 3 = 0
    /\ bytes[1] = 255
    /\ \A i \in 1..(Len(bytes) \div 3 - 1) : bytes[3 * i + 1] = 254
    /\ PayloadOf(bytes) =
           <<HdrByte(p)>> \o ServicesWritten(p)
               \o (IF Len(ServicesWritten(p)) % 2 = 0 THEN <<0>> ELSE <<>>)

\* C27: the triples of one packet are never interleaved with those of
\* another: each packet is one start triple [0xFF, header byte, first
\* service byte] and then its continuation triples [0xFE, a, b] in order,
\* the last padded with 0x00; what the budget has no room for is continued
\* at the start of the DTVCC part of the next frame, and the start triple of
\* the next packet comes only after the last triple of the packet before
C27_PacketsAreNotInterleaved ==
    call.op = "write" =>
        /\ \A i, j \in TriplesAt(call.out, {254, 255}) :
               \A k \in i..j : k \in TriplesAt(call.out, {254, 255})
        /\ CcpBytesOf(call.out) \o writer.pending_packet_data
             = call.was.pending_packet_data
                 \o Concat([i \in 1..Len(PoppedBy(call.was, writer)) |->
                               WriteAsCcData(PoppedBy(call.was, writer)[i])])
        /\ \A i \in 1..Len(PoppedBy(call.was, writer)) :
               IsOnePacket(WriteAsCcData(PoppedBy(call.was, writer)[i]),
                           PoppedBy(call.was, writer)[i])

\* a frame that begins its DTVCC part with the rest of a packet cut by the
\* frame before and then starts the next packet
C27_Witness ==
    /\ call.op = "write"
    /\ call.was.pending_packet_data # <<>>
    /\ call.was.packets # <<>>
    /\ NumTriples(call.out) > 1
    /\ Control(call.out, 0) = 254
    /\ TriplesAt(call.out, {255}) # {}

(***************************************************************************)
(* Claims on when a packet is out and on what the reassembly ignores       *)
(***************************************************************************)
\* what pop_packet returns, call after call, until it returns None
RECURSIVE PopAll(_)
PopAll(p) ==
    IF PopPacket(p).ret = <<>> THEN <<>>
    ELSE PopPacket(p).ret \o PopAll(PopPacket(p).parser)

\* the last start triple of a chain that has one
LastStart(chain) == CHOOSE s \in Starts(chain) : IsLastStart(chain, s)

\* the triples of a pushed frame
TriplesOf(data) == Drop(data, 2)

\* the packet begun at start s of the chain is whole and well formed
WholeAt(chain, s) ==
    /\ Len(Held(chain, s)) = Advertised(chain, s)
    /\ DTVCCPacketParse(Held(chain, s)).ok

\* C28: a packet is available from pop_packet right after the push that
\* supplies the last of the payload_len + 1 bytes its header byte
\* advertises: it is the newest in the queue, pop_packet returns it once
\* the packets completed before it are popped, no following start triple is
\* needed, and no payload is left pending; payload is pending only while
\* bytes are still needed.
C28_WholePacketIsOutAtOnce ==
    /\ parser.pending_data # <<>> => parser.ccp_bytes_needed > 0
    /\ (call.op = "push" /\ Starts(call.chain) # {}
            /\ WholeAt(call.chain, LastStart(call.chain)))
       => /\ NewPackets # <<>>
          /\ Head(parser.packets)
                = DTVCCPacketParse(Held(call.chain, LastStart(call.chain))).v
          /\ PopAll(parser)[Len(parser.packets)] = Head(parser.packets)
          /\ (Len(parser.packets) = 1
                => PopPacket(parser).ret = <<Head(parser.packets)>>)
          /\ parser.pending_data = <<>>
          /\ parser.ccp_bytes_needed = 0

\* C28 witness: the frame pushed has no start triple and brings the last
\* bytes of the packet pending from the frame before; pop_packet has it
C28_Witness ==
    /\ call.op = "push"
    /\ Starts(TriplesOf(call.data)) = {}
    /\ call.before.pending_data # <<>>
    /\ call.before.packets = <<>>
    /\ Len(NewPackets) = 1
    /\ PopPacket(parser).ret = <<NewPackets[1]>>
    /\ parser.pending_data = <<>>

\* the frame is one push walks: flag set, cc_count the triples present
IsGoodFrame(data) ==
    /\ Len(data) >= 5
    /\ (data[1] \div 64) % 2 = 1
    /\ data[1] % 32 # 0
    /\ HeaderLenOk(data[1] % 32, Len(data))

\* the triples without those of DTVCC type that have cc_valid clear
RECURSIVE ValidOrCea608(_)
ValidOrCea608(triples) ==
    IF triples = <<>> THEN <<>>
    ELSE (IF ~CcValid(triples[1]) /\ CcType(triples[1]) >= 2 THEN <<>>
          ELSE Take(triples, 3))
            \o ValidOrCea608(Drop(triples, 3))

\* the frame before the invalid triples of DTVCC type were inserted
WithoutInvalidDtvcc(data) ==
    <<192 + Len(ValidOrCea608(TriplesOf(data))) \div 3, data[2]>>
        \o ValidOrCea608(TriplesOf(data))

\* C29: invalid triples of DTVCC type inserted anywhere in a pushed frame
\* do not change the packets the parser emits: the push leaves the packets
\* that the push of the frame without them leaves.
C29_InvalidTriplesChangeNothing ==
    (call.op = "push" /\ IsGoodFrame(call.data))
    => parser.packets
        = Push(call.before, WithoutInvalidDtvcc(call.data)).parser.packets

\* the reassembly state new() and flush() leave: no header seen, nothing
\* pending, no bytes needed
Fresh(p) ==
    /\ p.pending_data = ParserNew.pending_data
    /\ p.have_initial_ccp_header = ParserNew.have_initial_ccp_header
    /\ p.ccp_bytes_needed = ParserNew.ccp_bytes_needed

\* the triples of the chain ahead of its first start triple
LeadTriples(chain) ==
    IF Starts(chain) = {} THEN ChainTriples(chain) ELSE SetMin(Starts(chain))

\* the chain from its first start triple on, as a frame
FromFirstStart(chain) ==
    <<192 + ChainTriples(chain) - LeadTriples(chain), 255>>
        \o Drop(chain, 3 * LeadTriples(chain))

\* C30: DTVCC continuation triples pushed before any start triple has been
\* seen since new() or flush() are discarded: a frame of them alone gives no
\* packet and leaves the parser as new() does, and a frame that has a start
\* triple behind them leaves the packets and the pending payload that the
\* frame cut to begin at its first start triple leaves; every packet
\* emitted holds the bytes of a start triple and of what follows it.
C30_ContinuationsBeforeStartAreDiscarded ==
    /\ call.op = "flush" => Fresh(parser)
    /\ (call.op = "push" /\ call.chain # <<>> /\ Fresh(call.before))
       => /\ Starts(call.chain) = {} => NewPackets = <<>> /\ Fresh(parser)
          /\ Starts(call.chain) # {}
             => /\ parser.packets
                    = Push(call.before,
                           FromFirstStart(call.chain)).parser.packets
                /\ parser.pending_data
                    = Push(call.before,
                           FromFirstStart(call.chain)).parser.pending_data
          /\ \A i \in 1..Len(NewPackets) :
                \E s \in Starts(call.chain) :
                    NewPackets[i]
                        = DTVCCPacketParse(Held(call.chain, s)).v

\* C30 witness: a parser that has seen no start triple is pushed a frame of
\* a continuation triple, a start triple and one more continuation triple,
\* and the packet of the last two is out
C30_Witness ==
    /\ call.op = "push"
    /\ Fresh(call.before)
    /\ ChainTriples(call.chain) = 3
    /\ ChainValid(call.chain, 0) /\ CcType(call.chain[1]) = 2
    /\ Starts(call.chain) = {1}
    /\ Len(NewPackets) = 1
    /\ parser.pending_data = <<>>

(***************************************************************************)
(* Claims on the size of a symbol                                          *)
(***************************************************************************)
\* the size table of Ext1: the length of the bytes behind 0x10, 0 where
\* the byte that tells it is missing
Ext1SizeTable(bytes) ==
    LET b == bytes[1] IN
    CASE b \in 0..7     -> 1
      [] b \in 8..15    -> 2
      [] b \in 16..23   -> 3
      [] b \in 24..31   -> 4
      [] b \in 32..127  -> 1
      [] b \in 128..135 -> 5
      [] b \in 136..143 -> 6
      [] b \in 144..159 -> IF Len(bytes) < 2 THEN 0 ELSE (bytes[2] % 64) + 1
      [] OTHER          -> 1

\* the size table: the length of the symbol that begins the bytes, 0 where
\* the byte that tells it is missing
SizeTable(bytes) ==
    LET b == bytes[1] IN
    CASE b \in 0..15    -> 1
      [] b = 16         -> IF Len(bytes) < 2 \/ Ext1SizeTable(Tail(bytes)) = 0
                           THEN 0 ELSE 1 + Ext1SizeTable(Tail(bytes))
      [] b \in 17..23   -> 2
      [] b \in 24..31   -> 3
      [] b \in 32..127  -> 1
      [] b \in 128..135 -> 1
      [] b \in 136..141 -> 2
      [] b \in 142..143 -> 1
      [] b = 144        -> 3
      [] b = 145        -> 4
      [] b = 146        -> 3
      [] b \in 147..150 -> 1
      [] b = 151        -> 5
      [] b \in 152..159 -> 7
      [] OTHER          -> 1

\* walking the bytes symbol by symbol, some symbol has fewer bytes left
\* than its length (or not the byte that tells its length)
RECURSIVE RunsShort(_)
RunsShort(data) ==
    IF data = <<>> THEN FALSE
    ELSE IF SizeTable(data) = 0 \/ Len(data) < SizeTable(data) THEN TRUE
    ELSE RunsShort(Drop(data, SizeTable(data)))

\* expected_size gives the length of the size table
ExpectedSizeIsTable ==
    call.op = "expected_size"
    => IF SizeTable(call.data) = 0 THEN ~call.ret.ok
       ELSE call.ret = Ok(SizeTable(call.data))

\* C31: expected_size gives, for every lead byte and behind 0x10 every Ext1
\* byte, the length of the size table, and from_data fails, with
\* LengthMismatch, exactly when the bytes left are fewer than that length.
C31_FromDataFailsOnlyWhenShort ==
    /\ ExpectedSizeIsTable
    /\ call.op = "from_data" => (~call.ret.ok <=> RunsShort(call.data))

(***************************************************************************)
(* Claims on the writer over many frames                                   *)
(***************************************************************************)
\* all that was pushed has been written and nothing is left in the writer
Drained ==
    /\ WriterEmpty(writer)
    /\ hist.sent_1 = Len(hist.f1)
    /\ hist.sent_2 = Len(hist.f2)
    /\ hist.sent_ccp = Len(CcpBytesPushed)

\* C32: with no further pushes and a framerate of 24 to 60 frames a
\* second, repeated write calls empty the writer: after finitely many
\* frames every byte pair and every packet pushed has been written whole.
C32_WritesDrainTheWriter == (hist.fed > 0) ~> Drained

\* C32 witness: two packets and a field 2 pair were pushed, more than one
\* frame was written, and the writer is drained
C32_Witness ==
    /\ hist.fed = 2
    /\ Len(hist.packets) = 2
    /\ hist.f2 # <<>>
    /\ Drained

\* the CEA-608 control bytes of the stream up to the frame just written,
\* from the last one before that frame on
StreamTail == <<hist.was608>> \o ControlsOf(call.out)

\* C33: in the concatenated output of successive writes a valid field 2
\* triple (0xFD) is written only when the CEA-608 triple written just
\* before it was a valid field 1 triple (0xFC); the first field 2 triple
\* follows a field 1 triple.
C33_Field2FollowsField1 ==
    call.op = "write" =>
        \A i \in 2..Len(StreamTail) :
            StreamTail[i] = 253 => StreamTail[i - 1] = 252

\* C37: with no push in between, buffered_packet_duration() does not grow
\* across a write call, and it is zero exactly when no packet bytes are
\* left to be written.
C37_PacketDurationNeverGrows ==
    call.op = "write" =>
        /\ BufferedPacketDuration(writer) <= BufferedPacketDuration(call.was)
        /\ BufferedPacketDuration(writer) = 0
              <=> (writer.packets = <<>> /\ writer.pending_packet_data = <<>>)

\* C38: at every framerate, those below 20 frames a second included, the
\* 5-bit cc_count of the frame header is the number of triples in the
\* frame, and no frame has more than 31 triples.
C38_HeaderCountFitsFiveBits ==
    call.op = "write" =>
        /\ call.out[1] % 32 = NumTriples(call.out)
        /\ NumTriples(call.out) <= 31

(***************************************************************************)
(* Claims on the flushed writer                                            *)
(***************************************************************************)
\* CCDataWriter::default with the padding settings of w
FreshLike(w) ==
    SetOutputCea608Padding(SetOutputPadding(WriterNew, w.output_padding),
                           w.output_cea608_padding)

\* C34: after flush the writer behaves like a new writer with the same
\* padding settings: a pair pushed to each and a frame written by each
\* give the same bytes, the fields starting again with field 1.
C34_FlushedWritesAsNew ==
    call.op = "writer_flush" =>
        \A cea608 \in CallPairs, framerate \in WriterFramerates :
            Write(PushCea608(writer, cea608), framerate).out
                = Write(PushCea608(FreshLike(writer), cea608), framerate).out

(***************************************************************************)
(* Claims on the length of a parsed service                                *)
(***************************************************************************)
\* block_size of the header of a service block
BlockSizeOf(data) == data[1] % 32

\* the bytes a service block takes in the input: a header of 2 bytes when
\* the service number field is 7, of 1 byte otherwise, and block_size bytes
BlockBytes(data) ==
    (IF data[1] \div 32 = 7 THEN 2 ELSE 1) + BlockSizeOf(data)

\* C35: a Service that Service::parse returns with a service number and a
\* block size other than 0 has a len() equal to the bytes its block takes
\* in the input, so that DTVCCPacket::parse steps to the next block.
C35_LenIsBlockBytes ==
    (/\ call.op = "service_parse_bytes"
     /\ call.ret.ok
     /\ call.ret.v.number # 0
     /\ BlockSizeOf(call.data) # 0)
        => ServiceLen(call.ret.v) = BlockBytes(call.data)

(***************************************************************************)
(* Claims on how many packets the parser emits                             *)
(***************************************************************************)
\* 1 when the parser carries the payload of an unfinished packet, else 0
Carried(p) == IF p.pending_data = <<>> THEN 0 ELSE 1

\* the valid DTVCC-start triples of a pushed frame
StartsPushed(data) == Cardinality(Starts(TriplesOf(data)))

\* C36: the parser emits at most one packet for each valid DTVCC-start
\* triple pushed.  Each push emits no more packets than the start triples
\* of its frame plus the one packet carried over from earlier frames, less
\* the one it carries over itself: the payload replayed at the next push
\* belongs to a packet not yet emitted, and a packet emitted leaves nothing
\* behind to be emitted again.
C36_OnePacketPerStart ==
    call.op = "push" =>
        /\ Len(NewPackets) + Carried(parser)
              <= StartsPushed(call.data) + Carried(call.before)
        /\ (call.result.kind # "Ok" \/ call.chain = <<>>)
              => NewPackets = <<>> /\ Carried(parser) = Carried(call.before)

\* C36 witness: the frame pushed has one start triple and the parser
\* carried a packet over; the start cuts that packet, which is emitted,
\* and the new packet is whole and emitted too, nothing being carried on
C36_Witness ==
    /\ call.op = "push"
    /\ call.before.pending_data # <<>>
    /\ StartsPushed(call.data) = 1
    /\ Len(NewPackets) = 2
    /\ parser.pending_data = <<>>

(***************************************************************************)
(* Claims on what the errors carry                                         *)
(***************************************************************************)
\* C39: when push fails because the frame length does not fit the header,
\* the LengthMismatch carries expected = cc_count * 3 + 2, the one length
\* push would have taken, and actual = the length of the frame pushed.
C39_MismatchTellsTheLengths ==
    (call.op = "push" /\ call.result.kind = "LengthMismatch") =>
        /\ call.result.expected = (call.data[1] % 32) * 3 + 2
        /\ call.result.actual = Len(call.data)

(***************************************************************************)
(* Claims on the predefined styles                                         *)
(***************************************************************************)
\* C40: for every DefineWindowArgs made of six argument bytes, the style
\* ids being anywhere in 0..7, window_attributes(), pen_attributes() and
\* pen_color() return one of the predefined styles and do not panic.
C40_StyleLookupsNeverPanic ==
    (call.op = "args_from" /\ call.kind = "DefineWindowArgs") =>
        /\ ~WindowAttributes(call.ret).panic
        /\ ~PenAttributes(call.ret).panic
        /\ ~PenColor(call.ret).panic
        /\ WindowAttributes(call.ret).style \in 1..PredefinedStyles
        /\ PenAttributes(call.ret).style \in 1..PredefinedStyles
        /\ PenColor(call.ret).style \in 1..PredefinedStyles

====
